---------------------------- MODULE Spec2Model ----------------------------
(***************************************************************************)
(* The agent control loop of swebench/agent (ClaudeAgent.solve and         *)
(* GeminiAgent.solve), the two agents without a loop (ClaudeCodeAgent and  *)
(* DummyAgent), the metrics record they finalize and the sandbox session   *)
(* they drive.  One run of solve is one behaviour: the configuration, the  *)
(* oracle's responses, the sandbox's outcomes and the wall clock are the   *)
(* inputs, drawn from small sets.                                          *)
(***************************************************************************)
EXTENDS Integers, Sequences, FiniteSets, TLC

(***************************************************************************)
(* Bounds of the model.                                                    *)
(***************************************************************************)
MaxIterations == 2      \* max_iterations ranges over 0..MaxIterations
MaxClock == 2           \* the wall clock ranges over 0..MaxClock
MaxBlocks == 2          \* content blocks in one oracle response

(***************************************************************************)
(* Texts are sequences of characters.  Python's None | str is a sequence   *)
(* of at most one text: None is <<>> and a text t is <<t>>.                *)
(***************************************************************************)
None == <<>>
Some(t) == <<t>>
EmptyText == <<>>

Whitespace == {" ", "\n"}

\* str.strip() as used by ContainerSession.get_patch
RECURSIVE LStrip(_)
LStrip(s) ==
    IF s # <<>> /\ Head(s) \in Whitespace THEN LStrip(Tail(s)) ELSE s

RECURSIVE RStrip(_)
RStrip(s) ==
    IF s # <<>> /\ s[Len(s)] \in Whitespace
    THEN RStrip(SubSeq(s, 1, Len(s) - 1))
    ELSE s

Strip(s) == RStrip(LStrip(s))

\* len(c.encode("utf-8")) of one character
Utf8Width(c) == IF c = "é" THEN 2 ELSE 1

\* len(patch.encode("utf-8"))
RECURSIVE Utf8Len(_)
Utf8Len(s) == IF s = <<>> THEN 0 ELSE Utf8Width(Head(s)) + Utf8Len(Tail(s))

\* What `git diff` can print in the sandbox's working tree.
DiffOutputs == { <<>>, <<"é", "d", "\n">> }

(***************************************************************************)
(* Configuration and inputs.                                               *)
(***************************************************************************)
LoopAgents == {"claude", "gemini"}
Agents == LoopAgents \cup {"claude-code", "dummy"}

ExitReasons ==
    {"completed", "gave_up", "max_iterations", "timeout", "token_budget", "error"}

\* The tools offered to the oracle, and a name that is none of them.
ToolNames == {"execute_command", "submit_patch", "give_up"}
BlockKinds == ToolNames \cup {"text", "bogus_tool"}

IsToolUse(b) == b # "text"

\* The responses an oracle can return.  stop_reason is "tool_use" exactly
\* when the content holds a tool-use block (the API's contract); a plain
\* answer is one text block.  "no_candidates" is Gemini's response without
\* candidates.  The loop reads the content blocks in order: size is their
\* number and content holds the blocks read so far; each block of a
\* tool-use response is drawn when the loop reaches it.
Responses(a) ==
    { [stop_reason |-> "tool_use", size |-> n, content |-> <<>>] :
          n \in 1..MaxBlocks }
    \cup { [stop_reason |-> "end_turn", size |-> 1, content |-> <<"text">>] }
    \cup (IF a = "gemini"
          THEN { [stop_reason |-> "no_candidates", size |-> 0, content |-> <<>>] }
          ELSE {})

NoResponse == [stop_reason |-> "", size |-> 0, content |-> <<>>]

\* The token usage one oracle call can report.
Usages ==
    { [input |-> 1, output |-> 0],
      [input |-> 1, output |-> 1] }

\* CommandResult of Session.execute, as far as the loop reads it.
CommandResults ==
    { [exit_code |-> 0, timed_out |-> FALSE],
      [exit_code |-> 1, timed_out |-> FALSE],
      [exit_code |-> -1, timed_out |-> TRUE] }

NewMetrics ==
    [ iterations |-> 0, input_tokens |-> 0, output_tokens |-> 0,
      total_tokens |-> 0, commands_executed |-> 0, commands_timed_out |-> 0,
      exit_reason |-> "", patch_produced |-> FALSE, patch_size_bytes |-> 0,
      end_time |-> 0 ]

NoResult == [returned |-> FALSE, model_patch |-> None, exit_reason |-> ""]

NoCommandResult == [output |-> <<>>, exit_code |-> 0, timed_out |-> FALSE]

\* No call is asked of the session, and none was made.
NoRequest ==
    [op |-> "", timeout |-> None, kind |-> "", out |-> <<>>, status |-> 0]

NoCall ==
    [done |-> FALSE, raised |-> FALSE, started |-> FALSE, ran |-> FALSE,
     effective |-> 0, result |-> NoCommandResult, patch |-> <<>>]

VARIABLES
    agent,              \* which AgentBase subclass runs
    max_iterations,     \* self.max_iterations
    agent_timeout,      \* self.agent_timeout
    max_token_budget,   \* self.max_token_budget
    pc,                 \* position of solve
    clock,              \* wall-clock seconds since start_wall
    iteration,          \* the for loop's variable
    elapsed,            \* the last reading time.time() - start_wall
    exit_reason,        \* solve's local exit_reason
    response,           \* solve's local response
    blk,                \* index of the next content block to process
    tool_results,       \* solve's local tool_results
    should_break,       \* solve's local should_break
    messages,           \* the conversation: the roles of its turns
    metrics,            \* the AgentMetrics handed to solve
    worktree,           \* what `git diff` prints in the sandbox now
    result,             \* the AgentResult solve returned
    oracle_calls,       \* history: oracle invocations made
    exec_calls,         \* history: Session.execute calls made for actions
    dispatched,         \* history: tool names dispatched in the current turn
    patch_calls,        \* history: outcomes of Session.get_patch calls
    events,             \* history: what the inputs of the run contained
    container,          \* ContainerSession.container
    command_timeout,    \* ContainerSession.command_timeout
    request,            \* the call made on the session and how it will end
    call,               \* history: the call made on the session, as it ended
    rpc,                \* position of run_instance_with_agent
    names,              \* instance_id, model_name_or_path and run_id
    has_session,        \* run_instance_with_agent's local session is not None
    pending,            \* how run_instance_with_agent ends after its finally
    prediction,         \* the prediction run_instance_with_agent returns
    persisted,          \* the content of metrics.json
    finalize_calls,     \* history: calls of metrics.finalize in this attempt
    cleanup_calls,      \* history: calls of session.cleanup in this attempt
    mpc,                \* position of main
    predictions_log,    \* the lines of predictions.jsonl
    remaining,          \* main's local remaining, from the current instance on
    executed,           \* history: the instances run, and whether logged before
    all_metrics,        \* main's local all_metrics
    summary,            \* what aggregate_metrics returned
    runs,               \* history: how many times main was started
    result_text,        \* what _handle_execute returned
    environ,            \* os.environ of the parent process
    subprocess_env,     \* the environment the CLI subprocess was started with
    max_repos_on_disk,  \* HFDataSource._max_repos
    semaphore,          \* the free slots of HFDataSource._semaphore
    gpc,                \* position of the generator iter_repos_with_datapoints
    position,           \* the index in repo_zip_paths of the repo at hand
    repo_groups,        \* the repos that data points refer to
    disk,               \* what is at repo_path, for each repo
    outstanding,        \* the repos yielded and not yet given to delete_repo
    releases,           \* history: releases of the slot acquired for each repo
    lock,               \* the thread that holds PromptCache._lock, 0 for none
    cache_index,        \* PromptCache._index
    cache_file,         \* prompt_cache.jsonl, as the pieces written to it
    tpc,                \* position of each thread in PromptCache.put
    puts,               \* the text_id each thread puts
    seen,               \* history: what the last has or get returned
    ppc,                \* position of _run_parallel
    pruns,              \* history: how many times _run_parallel was started
    results_file,       \* results.jsonl: the text_id of each record
    existing_ids,       \* _run_parallel's local existing_ids
    datapoints,         \* the data points yielded with the repo at hand
    dpi,                \* the index in datapoints of the data point at hand
    futures,            \* the LLM call submitted for each text_id in this run
    submissions,        \* history: the LLM calls submitted
    compositions,       \* history: the prompts composed
    failures            \* history: the text_ids whose last LLM call failed

config == <<agent, max_iterations, agent_timeout, max_token_budget>>
locals == <<iteration, elapsed, exit_reason, response, blk, tool_results,
            should_break, messages>>
history == <<oracle_calls, exec_calls, dispatched, patch_calls, events>>
session == <<container, command_timeout, request, call>>
runner == <<rpc, names, has_session, pending, prediction, persisted,
            finalize_calls, cleanup_calls>>
orchestration == <<mpc, predictions_log, remaining, executed, all_metrics,
                   summary, runs>>
tooling == <<result_text, environ, subprocess_env>>
repos == <<max_repos_on_disk, semaphore, gpc, position, repo_groups, disk,
           outstanding, releases>>
cache == <<lock, cache_index, cache_file, tpc, puts, seen>>
parallel == <<ppc, pruns, results_file, existing_ids, datapoints, dpi,
              futures, submissions, compositions, failures>>
extra == <<tooling, repos, cache, parallel>>
harness == <<config, pc, clock, locals, metrics, worktree, result, history,
             session, runner, orchestration>>
vars == <<config, pc, clock, locals, metrics, worktree, result, history,
          session, runner, orchestration, extra>>

(***************************************************************************)
(* AgentMetrics.finalize                                                   *)
(***************************************************************************)
\* Python's truth value of `patch`: neither None nor the empty string.
Truthy(patch) == patch # None /\ patch[1] # EmptyText

\* A finalize that forgets to record the exit reason.
\* time.time() when the clock of the model is at 0: a time after the epoch.
Epoch == 1

finalize_KeepsReason(m, patch, reason) ==
    [m EXCEPT !.end_time = Epoch + clock,
              !.total_tokens = m.input_tokens + m.output_tokens,
              !.patch_produced = Truthy(patch),
              !.patch_size_bytes =
                  IF Truthy(patch) THEN Utf8Len(patch[1]) ELSE 0]

\* A finalize that takes the size of the patch in characters.
finalize_CountsCharacters(m, patch, reason) ==
    [m EXCEPT !.end_time = Epoch + clock,
              !.exit_reason = reason,
              !.total_tokens = m.input_tokens + m.output_tokens,
              !.patch_produced = Truthy(patch),
              !.patch_size_bytes =
                  IF Truthy(patch) THEN Len(patch[1]) ELSE 0]

finalize(m, patch, reason) ==
    [m EXCEPT !.end_time = Epoch + clock,
              !.exit_reason = reason,
              !.total_tokens = m.input_tokens + m.output_tokens,
              !.patch_produced = Truthy(patch),
              !.patch_size_bytes =
                  IF Truthy(patch) THEN Utf8Len(patch[1]) ELSE 0]

\* model_patch = patch if patch else None
ModelPatch(patch) == IF patch # EmptyText THEN Some(patch) ELSE None

AgentResult(model_patch, reason) ==
    [returned |-> TRUE, model_patch |-> model_patch, exit_reason |-> reason]

(***************************************************************************)
(* ContainerSession.execute.  The alphabet of the texts a command prints   *)
(* has the sentinel prefix "SWEBENCH_EXIT:" as one symbol; lengths are     *)
(* counted in symbols.                                                     *)
(***************************************************************************)
MAX_COMMAND_TIMEOUT == 600
MAX_OUTPUT_BYTES == 2   \* 100 * 1024 in the source, scaled down
MaxOutput == 4          \* the longest text a command prints

SentinelPrefix == "SWEBENCH_EXIT:"
OutputSymbols == {"a", "\n", SentinelPrefix, "1"}

RECURSIVE TextsUpTo(_)
TextsUpTo(n) ==
    IF n = 0 THEN { <<>> }
    ELSE LET shorter == TextsUpTo(n - 1)
         IN  shorter \cup { Append(t, c) : t \in { u \in shorter : Len(u) = n - 1 },
                                           c \in OutputSymbols }

Outputs == TextsUpTo(MaxOutput)

\* The exit statuses a command ends with, and str(status) as `echo $?` prints it.
ExitStatuses == {0, 1}
StatusText(n) == IF n = 1 THEN <<"1">> ELSE <<"0">>

\* int(text): the value of a text of decimal digits, None for a ValueError.
DigitValue(c) == IF c = "1" THEN 1 ELSE 0
RECURSIVE DecimalValue(_)
DecimalValue(s) ==
    IF s = <<>> THEN 0
    ELSE 10 * DecimalValue(SubSeq(s, 1, Len(s) - 1)) + DigitValue(s[Len(s)])

ParseInt(s) ==
    IF s # <<>> /\ \A i \in DOMAIN s : s[i] \in {"0", "1"}
    THEN Some(DecimalValue(s))
    ELSE None

\* What `echo "SWEBENCH_EXIT:$?"` prints.
Echo(n) == <<SentinelPrefix>> \o StatusText(n) \o <<"\n">>

\* How the wrapped command can end: it runs to completion and the echo
\* follows it ("completed"), it is killed on expiry of the timeout
\* ("timeout"), the command ends the wrapping shell before the echo
\* ("killed", e.g. `kill -9 $$`), or the exec call itself fails
\* ("unreachable").
OutcomeKinds == {"completed", "timeout", "killed", "unreachable"}

\* The raw output exec_run_with_timeout returns for the wrapped command.
RawOutput(o) == IF o.kind = "completed" THEN o.out \o Echo(o.status) ELSE o.out

\* output.rstrip("\n")
RECURSIVE RStripNewlines(_)
RStripNewlines(s) ==
    IF s # <<>> /\ s[Len(s)] = "\n"
    THEN RStripNewlines(SubSeq(s, 1, Len(s) - 1))
    ELSE s

\* text.split("\n")
RECURSIVE SplitLines(_)
SplitLines(s) ==
    IF \E i \in DOMAIN s : s[i] = "\n"
    THEN LET i == CHOOSE j \in DOMAIN s :
                      s[j] = "\n" /\ \A k \in 1..(j - 1) : s[k] # "\n"
         IN  <<SubSeq(s, 1, i - 1)>> \o SplitLines(SubSeq(s, i + 1, Len(s)))
    ELSE <<s>>

\* "\n".join(lines)
RECURSIVE JoinLines(_)
JoinLines(lines) ==
    IF lines = <<>> THEN <<>>
    ELSE IF Len(lines) = 1 THEN lines[1]
    ELSE lines[1] \o <<"\n">> \o JoinLines(Tail(lines))

\* last_line.startswith("SWEBENCH_EXIT:")
StartsWithSentinel(line) == line # <<>> /\ line[1] = SentinelPrefix

\* Parse exit code from output
ParseOutput(raw, timed_out) ==
    LET lines == SplitLines(RStripNewlines(raw))
        last_line == lines[Len(lines)]
    IN  IF ~timed_out /\ StartsWithSentinel(last_line)
        THEN [exit_code |-> IF ParseInt(Tail(last_line)) # None
                            THEN ParseInt(Tail(last_line))[1]
                            ELSE -1,
              output |-> JoinLines(SubSeq(lines, 1, Len(lines) - 1))]
        ELSE [exit_code |-> -1, output |-> raw]

\* The marker put where the output was cut, stating its length.
Marker(n) ==
    <<"\n", "\n", "... [output truncated: ", ToString(n), " bytes total] ...",
      "\n", "\n">>

\* output[-half:]
Suffix(s, half) ==
    IF half = 0 THEN s ELSE SubSeq(s, Len(s) - half + 1, Len(s))

\* A truncation that keeps the head only.
Truncate_HeadOnly(output) ==
    IF Len(output) > MAX_OUTPUT_BYTES
    THEN SubSeq(output, 1, MAX_OUTPUT_BYTES)
    ELSE output

\* Truncate if output is too large
Truncate(output) ==
    IF Len(output) > MAX_OUTPUT_BYTES
    THEN LET half == MAX_OUTPUT_BYTES \div 2
         IN  SubSeq(output, 1, half) \o Marker(Len(output)) \o Suffix(output, half)
    ELSE output

\* An execute that truncates the raw output before it looks for the sentinel.
TruncateThenParse(raw, timed_out) ==
    LET parsed == ParseOutput(Truncate(raw), timed_out)
    IN  [output |-> parsed.output, exit_code |-> parsed.exit_code,
         timed_out |-> timed_out]

\* The CommandResult execute builds from what the exec returned.
ParseThenTruncate(raw, timed_out) ==
    LET parsed == ParseOutput(raw, timed_out)
    IN  [output |-> Truncate(parsed.output), exit_code |-> parsed.exit_code,
         timed_out |-> timed_out]

\* A clamp without the hard cap.
EffectiveTimeout_Uncapped(timeout, default) ==
    IF timeout # None /\ timeout[1] > 0 THEN timeout[1] ELSE default

\* Clamp timeout to prevent unbounded waits
EffectiveTimeout(timeout, default) ==
    IF timeout # None /\ timeout[1] > 0
    THEN (IF timeout[1] < MAX_COMMAND_TIMEOUT THEN timeout[1] ELSE MAX_COMMAND_TIMEOUT)
    ELSE default

(***************************************************************************)
(* ContainerSession.get_patch on a started session: the stripped output of *)
(* execute("git diff"), here for a `git diff` that runs to completion.     *)
(***************************************************************************)
get_patch(tree) == Strip(ParseThenTruncate(tree \o Echo(0), FALSE).output)

(***************************************************************************)
(* The decisions of the control loop.                                      *)
(***************************************************************************)
\* A loop that runs one iteration too many.
LoopRange_OffByOne(n) == 1..(n + 1)

\* for iteration in range(1, self.max_iterations + 1)
LoopRange(n) == 1..n

\* A timeout check that allows one second too many.
TimedOut_Late(e, timeout) == e > timeout + 1

\* if elapsed > self.agent_timeout
TimedOut(e, timeout) == e > timeout

\* A budget check that lets the budget be met exactly.
BudgetExhausted_Strict(total_used, budget) == budget > 0 /\ total_used > budget

\* if self.max_token_budget > 0 and total_used >= self.max_token_budget
BudgetExhausted(total_used, budget) == budget > 0 /\ total_used >= budget

\* A stop-reason check with the comparison inverted.
NoToolUse_Inverted(resp) == resp.stop_reason = "tool_use"

\* if response.stop_reason != "tool_use" / if not function_calls
NoToolUse(resp) == resp.stop_reason # "tool_use"

\* The id of the tool-use block at position i of the response of iteration
\* it: unique within the run.
ToolUseId(it, content, i) ==
    <<it, Cardinality({ j \in 1..i : IsToolUse(content[j]) })>>

ToolResult(id, content, is_error) ==
    [tool_use_id |-> id, content |-> content, is_error |-> is_error]

ExitCodeLine(n) ==
    CASE n = 0 -> "Exit code: 0"
      [] n = 1 -> "Exit code: 1"
      [] OTHER -> "Exit code: -1"

\* The text _handle_execute returns, line by line (the output lines left out).
ResultText(r) ==
    <<ExitCodeLine(r.exit_code)>>
        \o (IF r.timed_out THEN <<"Command timed out">> ELSE <<>>)

\* run_instance_with_agent is not running.
NoNames == [instance_id |-> <<>>, model_name_or_path |-> <<>>, run_id |-> <<>>]

RunnerIdle ==
    /\ rpc = "idle"
    /\ names = NoNames
    /\ has_session = FALSE
    /\ pending = ""
    /\ prediction = None
    /\ persisted = None
    /\ finalize_calls = 0
    /\ cleanup_calls = 0

\* main is not running.
NoSummary == [aggregated |-> FALSE]

MainIdle ==
    /\ mpc = "idle"
    /\ predictions_log = <<>>
    /\ remaining = <<>>
    /\ executed = <<>>
    /\ all_metrics = <<>>
    /\ summary = NoSummary
    /\ runs = 0

\* No tool result is being built and no CLI subprocess was started.
NoText == [shortened |-> FALSE, output |-> <<>>, text |-> <<>>]
NoEnv == [k \in {} |-> ""]

ToolingIdle ==
    /\ result_text = NoText
    /\ environ = NoEnv
    /\ subprocess_env = None

\* No repo is being iterated.
MaxRepos == 3
MaxSlots == 2
RepoIds == 1..MaxRepos

ReposIdle ==
    /\ max_repos_on_disk = 1
    /\ semaphore = 1
    /\ gpc = "idle"
    /\ position = 0
    /\ repo_groups = {}
    /\ disk = [r \in RepoIds |-> "absent"]
    /\ outstanding = {}
    /\ releases = [r \in RepoIds |-> 0]

\* No thread uses a prompt cache, and the cache is empty.
MaxWriters == 2
Writers == 1..MaxWriters
TextIds == {"x", "y", "z"}
NoEntries == [id \in TextIds |-> None]
NothingSeen == [op |-> "", text_id |-> "", value |-> None, found |-> FALSE]

CacheIdle ==
    /\ lock = 0
    /\ cache_index = NoEntries
    /\ cache_file = <<>>
    /\ tpc = [t \in Writers |-> "idle"]
    /\ puts = [t \in Writers |-> "x"]
    /\ seen = NothingSeen

\* _run_parallel has not been started.
NoFuture == [state |-> "none", messages |-> 0]

ParallelIdle ==
    /\ ppc = "idle"
    /\ pruns = 0
    /\ results_file = <<>>
    /\ existing_ids = {}
    /\ datapoints = <<>>
    /\ dpi = 0
    /\ futures = [id \in TextIds |-> NoFuture]
    /\ submissions = {}
    /\ compositions = {}
    /\ failures = {}

ExtraIdle ==
    /\ ToolingIdle
    /\ ReposIdle
    /\ CacheIdle
    /\ ParallelIdle

(***************************************************************************)
(* Initial state: the agent is constructed, the session started, the       *)
(* metrics record created; solve has not begun.                            *)
(***************************************************************************)
Init ==
    /\ ExtraIdle
    /\ agent \in Agents
    /\ max_iterations \in 0..MaxIterations
    /\ agent_timeout \in 0..(MaxClock - 1)
    /\ max_token_budget \in {0, 2}
    /\ pc = "start"
    /\ clock = 0
    /\ iteration = 0
    /\ elapsed = 0
    /\ exit_reason = ""
    /\ response = NoResponse
    /\ blk = 0
    /\ tool_results = <<>>
    /\ should_break = FALSE
    /\ messages = <<>>
    /\ metrics = NewMetrics
    /\ worktree \in DiffOutputs
    /\ result = NoResult
    /\ oracle_calls = 0
    /\ exec_calls = 0
    /\ dispatched = <<>>
    /\ patch_calls = <<>>
    /\ events = {}
    /\ container = Some("container")
    /\ command_timeout = 120
    /\ request = NoRequest
    /\ call = NoCall
    /\ RunnerIdle
    /\ MainIdle

\* The wall clock is read at the head of the loop only: the time that has
\* passed since the last reading is chosen there.
Readings == clock..MaxClock

(***************************************************************************)
(* ClaudeAgent.solve / GeminiAgent.solve                                   *)
(***************************************************************************)
\* messages = [user prompt]; exit_reason = "max_iterations"; start_wall = now
Start ==
    /\ pc = "start"
    /\ agent \in LoopAgents
    /\ messages' = <<"user">>
    /\ exit_reason' = "max_iterations"
    /\ pc' = "loop_head"
    /\ UNCHANGED <<config, session, runner, orchestration, extra, clock, iteration, elapsed, response, blk,
                   tool_results, should_break, metrics, worktree, result,
                   history>>

\* What a turn boundary adds to the history: whether the wall clock is past
\* agent_timeout there.
BoundaryEvents(now) ==
    events \cup (IF now > agent_timeout THEN {"boundary_over"} ELSE {})

\* The for loop has run through its range.
LoopExhausted ==
    /\ pc = "loop_head"
    /\ iteration + 1 \notin LoopRange(max_iterations)
    /\ \E now \in Readings :
        /\ clock' = now
        /\ events' = BoundaryEvents(now)
    /\ pc' = "get_patch"
    /\ UNCHANGED <<config, session, runner, orchestration, extra, locals, metrics, worktree, result,
                   oracle_calls, exec_calls, dispatched, patch_calls>>

\* elapsed = time.time() - start_wall; if elapsed > agent_timeout: break
AgentTimeout ==
    /\ pc = "loop_head"
    /\ iteration + 1 \in LoopRange(max_iterations)
    /\ \E now \in Readings :
        /\ TimedOut(now, agent_timeout)
        /\ clock' = now
        /\ elapsed' = now
        /\ events' = BoundaryEvents(now)
    /\ iteration' = iteration + 1
    /\ exit_reason' = "timeout"
    /\ pc' = "get_patch"
    /\ UNCHANGED <<config, session, runner, orchestration, extra, response, blk, tool_results, should_break,
                   messages, metrics, worktree, result, oracle_calls,
                   exec_calls, dispatched, patch_calls>>

\* ... otherwise metrics.iterations = iteration and the oracle is called.
BeginIteration ==
    /\ pc = "loop_head"
    /\ iteration + 1 \in LoopRange(max_iterations)
    /\ \E now \in Readings :
        /\ ~TimedOut(now, agent_timeout)
        /\ clock' = now
        /\ elapsed' = now
        /\ events' = BoundaryEvents(now)
    /\ iteration' = iteration + 1
    /\ metrics' = [metrics EXCEPT !.iterations = iteration + 1]
    /\ pc' = "call_oracle"
    /\ UNCHANGED <<config, session, runner, orchestration, extra, exit_reason, response, blk, tool_results,
                   should_break, messages, worktree, result, oracle_calls,
                   exec_calls, dispatched, patch_calls>>

\* An oracle call without its try/except: the exception leaves solve.
OracleRaises_Propagates ==
    /\ pc = "call_oracle"
    /\ oracle_calls' = oracle_calls + 1
    /\ pc' = "raised"
    /\ events' = events \cup {"oracle_error"}
    /\ UNCHANGED <<config, session, runner, orchestration, extra, clock, locals, metrics, worktree, result,
                   exec_calls, dispatched, patch_calls>>

\* The API call raises: exit_reason = "error"; break
OracleRaises ==
    /\ pc = "call_oracle"
    /\ oracle_calls' = oracle_calls + 1
    /\ exit_reason' = "error"
    /\ pc' = "get_patch"
    /\ events' = events \cup {"oracle_error"}
    /\ UNCHANGED <<config, session, runner, orchestration, extra, clock, iteration, elapsed, response, blk,
                   tool_results, should_break, messages, metrics, worktree,
                   result, exec_calls, dispatched, patch_calls>>

\* What a response adds to the history.
ResponseEvents(resp) ==
    (IF resp.stop_reason = "end_turn" THEN {"answer"} ELSE {})
    \cup (IF resp.stop_reason = "no_candidates" THEN {"no_candidates"} ELSE {})

\* The API call returns: track tokens, check the budget, append the
\* assistant turn, check the stop reason.
OracleResponds ==
    /\ pc = "call_oracle"
    /\ \E resp \in Responses(agent), u \in Usages :
        LET m == [metrics EXCEPT
                    !.input_tokens = metrics.input_tokens + u.input,
                    !.output_tokens = metrics.output_tokens + u.output]
            total_used == m.input_tokens + m.output_tokens
            appended == Append(messages, "assistant")
        IN  /\ oracle_calls' = oracle_calls + 1
            /\ response' = resp
            /\ metrics' = m
            /\ events' = events \cup ResponseEvents(resp)
            /\ IF BudgetExhausted(total_used, max_token_budget)
               THEN /\ exit_reason' = "token_budget"
                    /\ pc' = "get_patch"
                    /\ UNCHANGED <<messages, blk, tool_results, should_break>>
               ELSE IF resp.stop_reason = "no_candidates"
               THEN /\ exit_reason' = "error"
                    /\ pc' = "get_patch"
                    /\ UNCHANGED <<messages, blk, tool_results, should_break>>
               ELSE IF NoToolUse(resp)
               THEN /\ messages' = appended
                    /\ exit_reason' = "completed"
                    /\ pc' = "get_patch"
                    /\ UNCHANGED <<blk, tool_results, should_break>>
               ELSE /\ messages' = appended
                    /\ tool_results' = <<>>
                    /\ should_break' = FALSE
                    /\ blk' = 1
                    /\ pc' = "dispatch"
                    /\ UNCHANGED exit_reason
    /\ UNCHANGED <<config, session, runner, orchestration, extra, clock, iteration, elapsed, worktree, result,
                   exec_calls, dispatched, patch_calls>>

\* The tool loop is at content block blk, and the oracle's block there is b.
AtBlock == pc = "dispatch" /\ blk <= response.size
Read(b) == [response EXCEPT !.content = Append(@, b)]

\* if block.type != "tool_use": continue
\* (a tool-use response holds a tool-use block: its last block is no text
\* block when none came before)
SkipText ==
    /\ AtBlock
    /\ blk < response.size \/ dispatched # <<>>
    /\ response' = Read("text")
    /\ blk' = blk + 1
    /\ UNCHANGED <<config, session, runner, orchestration, extra, pc, clock, iteration, elapsed, exit_reason,
                   tool_results, should_break, messages, metrics, worktree,
                   result, history>>

\* An execute_command that counts only the commands that succeed.
ExecuteReturns_CountsSuccesses ==
    /\ AtBlock
    /\ response' = Read("execute_command")
    /\ \E r \in CommandResults, tree \in DiffOutputs :
        /\ metrics' = [metrics EXCEPT
               !.commands_executed =
                   metrics.commands_executed + (IF r.exit_code = 0 THEN 1 ELSE 0),
               !.commands_timed_out =
                   metrics.commands_timed_out + (IF r.timed_out THEN 1 ELSE 0)]
        /\ worktree' = tree
        /\ tool_results' = Append(tool_results,
               ToolResult(ToolUseId(iteration, response'.content, blk),
                          ResultText(r), FALSE))
    /\ exec_calls' = exec_calls + 1
    /\ dispatched' = Append(dispatched, "execute_command")
    /\ blk' = blk + 1
    /\ UNCHANGED <<config, session, runner, orchestration, extra, pc, clock, iteration, elapsed, exit_reason,
                   should_break, messages, result, oracle_calls, patch_calls,
                   events>>

\* execute_command: _handle_execute, Session.execute returning a result
ExecuteReturns ==
    /\ AtBlock
    /\ response' = Read("execute_command")
    /\ \E r \in CommandResults, tree \in DiffOutputs :
        /\ metrics' = [metrics EXCEPT
               !.commands_executed = metrics.commands_executed + 1,
               !.commands_timed_out =
                   metrics.commands_timed_out + (IF r.timed_out THEN 1 ELSE 0)]
        /\ worktree' = tree
        /\ tool_results' = Append(tool_results,
               ToolResult(ToolUseId(iteration, response'.content, blk),
                          ResultText(r), FALSE))
    /\ exec_calls' = exec_calls + 1
    /\ dispatched' = Append(dispatched, "execute_command")
    /\ blk' = blk + 1
    /\ UNCHANGED <<config, session, runner, orchestration, extra, pc, clock, iteration, elapsed, exit_reason,
                   should_break, messages, result, oracle_calls, patch_calls,
                   events>>

\* execute_command: Session.execute raises (the environment is unreachable);
\* nothing in solve catches it.
ExecuteRaises ==
    /\ AtBlock
    /\ response' = Read("execute_command")
    /\ metrics' = [metrics EXCEPT
           !.commands_executed = metrics.commands_executed + 1]
    /\ exec_calls' = exec_calls + 1
    /\ events' = events \cup {"sandbox_error"}
    /\ pc' = "raised"
    /\ UNCHANGED <<config, session, runner, orchestration, extra, clock, iteration, elapsed, exit_reason, blk,
                   tool_results, should_break, messages, worktree, result,
                   oracle_calls, dispatched, patch_calls>>

\* A submit_patch that breaks out of the tool loop at once.
SubmitPatch_BreaksAtOnce ==
    /\ AtBlock
    /\ response' = Read("submit_patch")
    /\ exit_reason' = "completed"
    /\ should_break' = TRUE
    /\ tool_results' = Append(tool_results,
           ToolResult(ToolUseId(iteration, response'.content, blk),
                      <<"Patch submitted successfully.">>, FALSE))
    /\ dispatched' = Append(dispatched, "submit_patch")
    /\ events' = events \cup {"submit_patch"}
    /\ blk' = blk + 1
    /\ messages' = Append(messages, "user")
    /\ pc' = "get_patch"
    /\ UNCHANGED <<config, session, runner, orchestration, extra, clock, iteration, elapsed, metrics, worktree,
                   result, oracle_calls, exec_calls, patch_calls>>

SubmitPatch ==
    /\ AtBlock
    /\ response' = Read("submit_patch")
    /\ exit_reason' = "completed"
    /\ should_break' = TRUE
    /\ tool_results' = Append(tool_results,
           ToolResult(ToolUseId(iteration, response'.content, blk),
                      <<"Patch submitted successfully.">>, FALSE))
    /\ dispatched' = Append(dispatched, "submit_patch")
    /\ events' = events \cup {"submit_patch"}
    /\ blk' = blk + 1
    /\ UNCHANGED <<config, session, runner, orchestration, extra, pc, clock, iteration, elapsed, messages,
                   metrics, worktree, result, oracle_calls, exec_calls,
                   patch_calls>>

\* A give_up that leaves the exit_reason of an earlier submit_patch.
GiveUp_KeepsEarlier ==
    /\ AtBlock
    /\ response' = Read("give_up")
    /\ exit_reason' = (IF should_break THEN exit_reason ELSE "gave_up")
    /\ should_break' = TRUE
    /\ tool_results' = Append(tool_results,
           ToolResult(ToolUseId(iteration, response'.content, blk),
                      <<"Acknowledged.">>, FALSE))
    /\ dispatched' = Append(dispatched, "give_up")
    /\ events' = events \cup {"give_up"}
    /\ blk' = blk + 1
    /\ UNCHANGED <<config, session, runner, orchestration, extra, pc, clock, iteration, elapsed, messages,
                   metrics, worktree, result, oracle_calls, exec_calls,
                   patch_calls>>

GiveUp ==
    /\ AtBlock
    /\ response' = Read("give_up")
    /\ exit_reason' = "gave_up"
    /\ should_break' = TRUE
    /\ tool_results' = Append(tool_results,
           ToolResult(ToolUseId(iteration, response'.content, blk),
                      <<"Acknowledged.">>, FALSE))
    /\ dispatched' = Append(dispatched, "give_up")
    /\ events' = events \cup {"give_up"}
    /\ blk' = blk + 1
    /\ UNCHANGED <<config, session, runner, orchestration, extra, pc, clock, iteration, elapsed, messages,
                   metrics, worktree, result, oracle_calls, exec_calls,
                   patch_calls>>

\* An unknown tool name treated as fatal.
UnknownTool_Fatal ==
    /\ AtBlock
    /\ \E name \in BlockKinds :
        /\ IsToolUse(name)
        /\ name \notin ToolNames
        /\ response' = Read(name)
        /\ tool_results' = Append(tool_results,
               ToolResult(ToolUseId(iteration, response'.content, blk),
                          <<"Unknown tool: " \o name>>, TRUE))
        /\ dispatched' = Append(dispatched, name)
    /\ events' = events \cup {"unknown_tool"}
    /\ exit_reason' = "error"
    /\ should_break' = TRUE
    /\ blk' = blk + 1
    /\ UNCHANGED <<config, session, runner, orchestration, extra, pc, clock, iteration, elapsed, messages, metrics,
                   worktree, result, oracle_calls, exec_calls, patch_calls>>

\* An unknown tool name that gets no tool result.
UnknownTool_NoResult ==
    /\ AtBlock
    /\ \E name \in BlockKinds :
        /\ IsToolUse(name)
        /\ name \notin ToolNames
        /\ response' = Read(name)
        /\ dispatched' = Append(dispatched, name)
    /\ events' = events \cup {"unknown_tool"}
    /\ blk' = blk + 1
    /\ UNCHANGED <<config, session, runner, orchestration, extra, pc, clock, iteration, elapsed, exit_reason,
                   tool_results, should_break, messages, metrics, worktree,
                   result, oracle_calls, exec_calls, patch_calls>>

\* else: an error tool result "Unknown tool: <name>"
UnknownTool ==
    /\ AtBlock
    /\ \E name \in BlockKinds :
        /\ IsToolUse(name)
        /\ name \notin ToolNames
        /\ response' = Read(name)
        /\ tool_results' = Append(tool_results,
               ToolResult(ToolUseId(iteration, response'.content, blk),
                          <<"Unknown tool: " \o name>>, TRUE))
        /\ dispatched' = Append(dispatched, name)
    /\ events' = events \cup {"unknown_tool"}
    /\ blk' = blk + 1
    /\ UNCHANGED <<config, session, runner, orchestration, extra, pc, clock, iteration, elapsed, exit_reason,
                   should_break, messages, metrics, worktree, result,
                   oracle_calls, exec_calls, patch_calls>>

\* What a completed turn adds to the history: whether a turn the loop goes
\* on from dispatched anything but one execute_command.
TurnEvents ==
    IF ~should_break /\ dispatched # <<"execute_command">>
    THEN {"other_turn"}
    ELSE {}

\* After the tool loop: append the tool results as one user turn, then
\* break or go on to the next iteration.  When the loop goes on, response,
\* blk and tool_results are dead (the next iteration assigns them before it
\* reads them) and are cleared.
EndTurn ==
    /\ pc = "dispatch"
    /\ blk > response.size
    /\ messages' = IF tool_results # <<>>
                   THEN Append(messages, "user")
                   ELSE messages
    /\ IF should_break
       THEN /\ pc' = "get_patch"
            /\ UNCHANGED <<response, blk, tool_results, dispatched>>
       ELSE /\ pc' = "loop_head"
            /\ response' = NoResponse
            /\ blk' = 0
            /\ tool_results' = <<>>
            /\ dispatched' = <<>>
    /\ events' = events \cup TurnEvents
    /\ UNCHANGED <<config, session, runner, orchestration, extra, clock, iteration, elapsed, exit_reason,
                   should_break, metrics, worktree, result, oracle_calls,
                   exec_calls, patch_calls>>

(***************************************************************************)
(* The end of solve in ClaudeAgent, GeminiAgent and ClaudeCodeAgent:       *)
(* capture the patch, finalize the metrics, return the result.             *)
(***************************************************************************)
Return(patch) ==
    /\ metrics' = finalize(metrics, ModelPatch(patch), exit_reason)
    /\ result' = AgentResult(ModelPatch(patch), exit_reason)
    /\ pc' = "returned"

PatchCaptured ==
    /\ pc = "get_patch"
    /\ patch_calls' =
           Append(patch_calls, [raised |-> FALSE, text |-> get_patch(worktree)])
    /\ Return(get_patch(worktree))
    /\ UNCHANGED <<config, session, runner, orchestration, extra, clock, locals, worktree, oracle_calls, exec_calls,
                   dispatched, events>>

\* except Exception: patch = ""
PatchCaptureFails ==
    /\ pc = "get_patch"
    /\ patch_calls' = Append(patch_calls, [raised |-> TRUE, text |-> EmptyText])
    /\ Return(EmptyText)
    /\ UNCHANGED <<config, session, runner, orchestration, extra, clock, locals, worktree, oracle_calls, exec_calls,
                   dispatched, events>>

(***************************************************************************)
(* DummyAgent.solve                                                        *)
(***************************************************************************)
DummySolve ==
    /\ pc = "start"
    /\ agent = "dummy"
    /\ patch_calls' =
           Append(patch_calls, [raised |-> FALSE, text |-> get_patch(worktree)])
    /\ exit_reason' = "completed"
    /\ metrics' = finalize([metrics EXCEPT !.iterations = 0],
                           ModelPatch(get_patch(worktree)), "completed")
    /\ result' = AgentResult(ModelPatch(get_patch(worktree)), "completed")
    /\ pc' = "returned"
    /\ UNCHANGED <<config, session, runner, orchestration, extra, clock, iteration, elapsed, response, blk,
                   tool_results, should_break, messages, worktree,
                   oracle_calls, exec_calls, dispatched, events>>

\* session.get_patch() raises and DummyAgent.solve does not catch it.
DummyPatchRaises ==
    /\ pc = "start"
    /\ agent = "dummy"
    /\ patch_calls' = Append(patch_calls, [raised |-> TRUE, text |-> EmptyText])
    /\ metrics' = [metrics EXCEPT !.iterations = 0]
    /\ events' = events \cup {"sandbox_error"}
    /\ pc' = "raised"
    /\ UNCHANGED <<config, session, runner, orchestration, extra, clock, locals, worktree, result, oracle_calls,
                   exec_calls, dispatched>>

(***************************************************************************)
(* ClaudeCodeAgent.solve: one run of the CLI, then the common end.         *)
(***************************************************************************)
\* What _parse_output finds in the CLI's stdout: nothing, or the usage data.
CliData ==
    { [input_tokens |-> u.input, output_tokens |-> u.output, num_turns |-> n] :
          u \in Usages, n \in {0, 1} }

\* subprocess.run returns.
CliReturns ==
    /\ pc = "start"
    /\ agent = "claude-code"
    /\ \E returncode \in {0, 1}, parsed \in {None} \cup {Some(d) : d \in CliData},
          tree \in DiffOutputs :
        /\ metrics' = IF parsed # None
                      THEN [metrics EXCEPT
                              !.input_tokens = parsed[1].input_tokens,
                              !.output_tokens = parsed[1].output_tokens,
                              !.iterations = parsed[1].num_turns]
                      ELSE metrics
        /\ exit_reason' = IF returncode # 0 THEN "error" ELSE "completed"
        /\ worktree' = tree
    /\ pc' = "get_patch"
    /\ UNCHANGED <<config, session, runner, orchestration, extra, clock, iteration, elapsed, response, blk,
                   tool_results, should_break, messages, result, history>>

\* subprocess.TimeoutExpired
CliTimesOut ==
    /\ pc = "start"
    /\ agent = "claude-code"
    /\ exit_reason' = "timeout"
    /\ worktree' \in DiffOutputs
    /\ pc' = "get_patch"
    /\ UNCHANGED <<config, session, runner, orchestration, extra, clock, iteration, elapsed, response, blk,
                   tool_results, should_break, messages, metrics, result,
                   history>>

\* any other exception of subprocess.run
CliFails ==
    /\ pc = "start"
    /\ agent = "claude-code"
    /\ exit_reason' = "error"
    /\ pc' = "get_patch"
    /\ UNCHANGED <<config, session, runner, orchestration, extra, clock, iteration, elapsed, response, blk,
                   tool_results, should_break, messages, metrics, worktree,
                   result, history>>

Next ==
    \/ Start
    \/ LoopExhausted
    \/ AgentTimeout
    \/ BeginIteration
    \/ OracleRaises
    \/ OracleResponds
    \/ SkipText
    \/ ExecuteReturns
    \/ ExecuteRaises
    \/ SubmitPatch
    \/ GiveUp
    \/ UnknownTool
    \/ EndTurn
    \/ PatchCaptured
    \/ PatchCaptureFails
    \/ DummySolve
    \/ DummyPatchRaises
    \/ CliReturns
    \/ CliTimesOut
    \/ CliFails

Spec == Init /\ [][Next]_vars

(***************************************************************************)
(* ContainerSession on its own: one session, constructed and not started,  *)
(* on which one call (execute, or get_patch) is made at some moment of its *)
(* life.  The call's argument, the way the command ends and what it prints *)
(* are the inputs, chosen in the initial state.                            *)
(***************************************************************************)
\* The timeout argument of execute: unset, or an integer.
TimeoutArgs == {None} \cup { Some(t) : t \in {-1, 0, 1, 600, 601, 999999} }

\* The session defaults --command_timeout can configure (any integer).
SessionDefaults == {0, 120, 601}

\* What `git diff` prints: nothing, or lines.
Diffs == { t \in Outputs : t = <<>> \/ t[Len(t)] = "\n" }

ExecuteRequests ==
    { [op |-> "execute", timeout |-> t, kind |-> k, out |-> o, status |-> n] :
          t \in TimeoutArgs, k \in {"timeout", "killed"}, o \in Outputs, n \in {0} }
    \cup
    { [op |-> "execute", timeout |-> t, kind |-> "completed", out |-> o,
       status |-> n] : t \in TimeoutArgs, o \in Outputs, n \in ExitStatuses }
    \cup
    { [op |-> "execute", timeout |-> t, kind |-> "unreachable", out |-> <<>>,
       status |-> 0] : t \in TimeoutArgs }

\* get_patch calls execute("git diff") without a timeout.
PatchRequests ==
    { [op |-> "get_patch", timeout |-> None, kind |-> "completed", out |-> d,
       status |-> 0] : d \in Diffs }
    \cup
    { [op |-> "get_patch", timeout |-> None, kind |-> k, out |-> <<>>,
       status |-> 0] : k \in {"timeout", "unreachable"} }

loop == <<config, pc, clock, locals, metrics, result, oracle_calls,
          exec_calls, dispatched, patch_calls>>

\* No agent runs: the variables of solve keep their initial values.
LoopIdle ==
    /\ max_iterations = 0
    /\ agent_timeout = 0
    /\ max_token_budget = 0
    /\ pc = "start"
    /\ clock = 0
    /\ iteration = 0
    /\ elapsed = 0
    /\ exit_reason = ""
    /\ response = NoResponse
    /\ blk = 0
    /\ tool_results = <<>>
    /\ should_break = FALSE
    /\ messages = <<>>
    /\ metrics = NewMetrics
    /\ result = NoResult
    /\ oracle_calls = 0
    /\ exec_calls = 0
    /\ dispatched = <<>>
    /\ patch_calls = <<>>
    /\ events = {}

SessionInit ==
    /\ ExtraIdle
    /\ LoopIdle
    /\ RunnerIdle
    /\ MainIdle
    /\ agent = "dummy"
    /\ container = None
    /\ command_timeout \in SessionDefaults
    /\ request \in ExecuteRequests \cup PatchRequests
    /\ worktree = (IF request.op = "get_patch" /\ request.kind = "completed"
                   THEN request.out
                   ELSE <<>>)
    /\ call = NoCall

\* An execute that does not look at self.container.
execute_Unchecked(c, default, timeout, o) ==
    IF o.kind = "unreachable"
    THEN [NoCall EXCEPT !.done = TRUE, !.raised = TRUE, !.started = (c # None),
                        !.effective = EffectiveTimeout(timeout, default)]
    ELSE [done |-> TRUE, raised |-> FALSE, started |-> (c # None), ran |-> TRUE,
          effective |-> EffectiveTimeout(timeout, default),
          result |-> ParseThenTruncate(RawOutput(o), o.kind = "timeout"),
          patch |-> <<>>]

\* ContainerSession.execute on a session whose container is c: how the call
\* ends.  It raises when there is no container and when the exec fails.
execute(c, default, timeout, o) ==
    IF c = None
    THEN [NoCall EXCEPT !.done = TRUE, !.raised = TRUE]
    ELSE IF o.kind = "unreachable"
    THEN [NoCall EXCEPT !.done = TRUE, !.raised = TRUE, !.started = TRUE,
                        !.effective = EffectiveTimeout(timeout, default)]
    ELSE [done |-> TRUE, raised |-> FALSE, started |-> TRUE, ran |-> TRUE,
          effective |-> EffectiveTimeout(timeout, default),
          result |-> ParseThenTruncate(RawOutput(o), o.kind = "timeout"),
          patch |-> <<>>]

\* ContainerSession.start (a session is started once, and not after its
\* cleanup)
SessionStart ==
    /\ container = None
    /\ events \cap {"started", "start_failed", "cleaned"} = {}
    /\ container' = Some("container")
    /\ events' = events \cup {"started"}
    /\ UNCHANGED <<loop, runner, orchestration, extra, worktree, command_timeout, request, call>>

\* ContainerSession.execute
SessionExecute ==
    /\ ~call.done
    /\ request.op = "execute"
    /\ call' = execute(container, command_timeout, request.timeout, request)
    /\ UNCHANGED <<loop, runner, orchestration, extra, worktree, events, container, command_timeout, request>>

\* How many times get_patch is called on one session.
MaxPatchCalls == 2

\* A get_patch that puts the changes of the working tree away.
SessionGetPatch_Stashes ==
    /\ Len(patch_calls) < MaxPatchCalls
    /\ request.op = "get_patch"
    /\ LET c == execute(container, command_timeout, request.timeout,
                        [request EXCEPT !.out = worktree])
           made == IF c.raised THEN c
                   ELSE [c EXCEPT !.patch = Strip(c.result.output)]
       IN  /\ call' = made
           /\ patch_calls' = Append(patch_calls,
                  [raised |-> made.raised, text |-> made.patch])
           /\ worktree' = IF c.raised THEN worktree ELSE <<>>
    /\ UNCHANGED <<runner, orchestration, extra, config, pc, clock, locals, metrics, result, oracle_calls,
                   exec_calls, dispatched, events, container,
                   command_timeout, request>>

\* ContainerSession.get_patch
SessionGetPatch ==
    /\ Len(patch_calls) < MaxPatchCalls
    /\ request.op = "get_patch"
    /\ LET c == execute(container, command_timeout, request.timeout, request)
           made == IF c.raised THEN c
                   ELSE [c EXCEPT !.patch = Strip(c.result.output)]
       IN  /\ call' = made
           /\ patch_calls' = Append(patch_calls,
                  [raised |-> made.raised, text |-> made.patch])
    /\ UNCHANGED <<runner, orchestration, extra, config, pc, clock, locals, metrics, result, oracle_calls,
                   exec_calls, dispatched, worktree, events, container,
                   command_timeout, request>>

\* cleanup_container(client, container, logger) of the harness: releases the
\* container if there is one; safe for a container that was created and
\* not started, and for no container at all.
cleanup_container(c) == [raised |-> FALSE, released |-> c]

\* What a call of cleanup adds to the history (two calls are followed).
CleanupEvents == IF "cleaned" \in events THEN {"cleaned_twice"} ELSE {"cleaned"}

\* A cleanup that forgets to reset self.container.
SessionCleanup_KeepsContainer ==
    /\ "cleaned_twice" \notin events
    /\ ~cleanup_container(container).raised
    /\ container' = container
    /\ events' = events \cup CleanupEvents
    /\ UNCHANGED <<loop, runner, orchestration, extra, worktree, command_timeout, request, call>>

\* ContainerSession.cleanup
SessionCleanup ==
    /\ "cleaned_twice" \notin events
    /\ ~cleanup_container(container).raised
    /\ container' = None
    /\ events' = events \cup CleanupEvents
    /\ UNCHANGED <<loop, runner, orchestration, extra, worktree, command_timeout, request, call>>

SessionNext ==
    \/ SessionStart
    \/ SessionExecute
    \/ SessionGetPatch
    \/ SessionCleanup

SessionSpec == SessionInit /\ [][SessionNext]_vars

-----------------------------------------------------------------------------
\* The life cycle of a ContainerSession: start() may fail, cleanup() is
\* called in any state, the session is used through a with statement, and
\* get_patch is called at any point of it.
\* events records what happened: "started", "start_failed" (with "created"
\* when build_container had returned and self.container was assigned),
\* "cleaned", "cleaned_twice", "entered" (__enter__ returned), "body_raised"
\* and "with_left" (the with statement was left).

LifecycleInit ==
    /\ ExtraIdle
    /\ LoopIdle
    /\ RunnerIdle
    /\ MainIdle
    /\ agent = "dummy"
    /\ container = None
    /\ command_timeout \in SessionDefaults
    /\ request \in PatchRequests
    /\ worktree = (IF request.kind = "completed" THEN request.out ELSE <<>>)
    /\ call = NoCall

\* ContainerSession.start raising: in build_container, before self.container
\* is assigned, or in self.container.start(), after it.
SessionStartFails ==
    /\ container = None
    /\ events \cap {"started", "start_failed", "cleaned"} = {}
    /\ \E created \in BOOLEAN :
          /\ container' = (IF created THEN Some("container") ELSE None)
          /\ events' = events \cup {"start_failed"}
                          \cup (IF created THEN {"created"} ELSE {})
    /\ UNCHANGED <<loop, runner, orchestration, extra, worktree, command_timeout, request, call>>

\* `with session:` whose __enter__ returns: start() succeeded
SessionEnter ==
    /\ container = None
    /\ events \cap {"started", "start_failed", "cleaned"} = {}
    /\ container' = Some("container")
    /\ events' = events \cup {"started", "entered"}
    /\ UNCHANGED <<loop, runner, orchestration, extra, worktree, command_timeout, request, call>>

\* `with session:` whose __enter__ raises because start() does: Python then
\* leaves the with statement without calling __exit__
SessionEnterFails ==
    /\ container = None
    /\ events \cap {"started", "start_failed", "cleaned"} = {}
    /\ \E created \in BOOLEAN :
          /\ container' = (IF created THEN Some("container") ELSE None)
          /\ events' = events \cup {"start_failed", "with_left"}
                          \cup (IF created THEN {"created"} ELSE {})
    /\ UNCHANGED <<loop, runner, orchestration, extra, worktree, command_timeout, request, call>>

\* The body of the with statement returns or raises: __exit__ calls cleanup
\* and returns None, so an exception of the body goes on.
SessionExit ==
    /\ "entered" \in events
    /\ "with_left" \notin events
    /\ "cleaned_twice" \notin events
    /\ ~cleanup_container(container).raised
    /\ \E raised \in BOOLEAN :
          events' = events \cup CleanupEvents \cup {"with_left"}
                       \cup (IF raised THEN {"body_raised"} ELSE {})
    /\ container' = None
    /\ UNCHANGED <<loop, runner, orchestration, extra, worktree, command_timeout, request, call>>

LifecycleNext ==
    \/ SessionStart
    \/ SessionGetPatch
    \/ SessionStartFails
    \/ SessionCleanup
    \/ SessionEnter
    \/ SessionEnterFails
    \/ SessionExit

LifecycleSpec == LifecycleInit /\ [][LifecycleNext]_vars

-----------------------------------------------------------------------------
(***************************************************************************)
(* run_instance_with_agent: one attempt at one task.  agent.solve is one   *)
(* step here: it returns an AgentResult with the metrics finalized, or it  *)
(* raises before it finalized them.                                        *)
(***************************************************************************)
\* The characters of a name, and how long a name is at most.
PathSymbols == {"a", ".", "/", "\\"}
MaxName == 2

RECURSIVE NamesUpTo(_)
NamesUpTo(n) ==
    IF n = 0 THEN { <<>> }
    ELSE LET shorter == NamesUpTo(n - 1)
         IN  shorter \cup { Append(t, c) : t \in { u \in shorter : Len(u) = n - 1 },
                                           c \in PathSymbols }

InstanceIds == NamesUpTo(MaxName)
ModelNames == { <<"a">>, <<"a", "/">> }
RunIds == { <<"a">>, <<".", ".">> }

\* _validate_path_component: TRUE when it returns, FALSE when it raises
validate_path_component(value) ==
    ~ \/ \E i \in 1..(Len(value) - 1) : value[i] = "." /\ value[i + 1] = "."
      \/ \E i \in 1..Len(value) : value[i] = "/"
      \/ \E i \in 1..Len(value) : value[i] = "\\"

ValidNames ==
    /\ validate_path_component(names.instance_id)
    /\ validate_path_component(names.model_name_or_path)
    /\ validate_path_component(names.run_id)

\* create_agent knows the name: AGENT_REGISTRY and _LAZY_AGENTS
LazyAgents == LoopAgents \cup {"claude-code"}

\* What solve can return and record.
RunPatches == { None, Some(<<"a">>), Some(<<"é", "a">>) }
RunUsages == Usages \cup { [input |-> 0, output |-> 0] }

\* {KEY_INSTANCE_ID, KEY_MODEL, KEY_PREDICTION: patch}
Prediction(patch) == Some([instance_id |-> names.instance_id,
                           model_patch |-> patch])

\* What the steps of run_instance_with_agent never touch.
outside_runner == <<config, names, pc, clock, locals, worktree,
                    dispatched, patch_calls, command_timeout, request, call,
                    orchestration, extra>>

RunnerInit ==
    /\ ExtraIdle
    /\ LoopIdle
    /\ MainIdle
    /\ agent \in Agents \cup {"no-such-agent"}
    /\ worktree = <<>>
    /\ container = None
    /\ command_timeout = 120
    /\ request = NoRequest
    /\ call = NoCall
    /\ rpc = "validate"
    /\ names \in [instance_id : InstanceIds, model_name_or_path : ModelNames,
                  run_id : RunIds]
    /\ has_session = FALSE
    /\ pending = ""
    /\ prediction = None
    /\ persisted = None
    /\ finalize_calls = 0
    /\ cleanup_calls = 0

\* One of the three _validate_path_component calls raises ValueError, outside
\* any try: the exception leaves run_instance_with_agent.
RunValidationFails ==
    /\ rpc = "validate"
    /\ ~ValidNames
    /\ rpc' = "propagated"
    /\ events' = events \cup {"validation_failed"}
    /\ UNCHANGED <<outside_runner, metrics, result, oracle_calls, exec_calls,
                   container, has_session, pending, prediction, persisted,
                   finalize_calls, cleanup_calls>>

\* make_test_spec, log_dir.mkdir or setup_logger raises, outside any try.
RunSetupFails ==
    /\ rpc = "validate"
    /\ ValidNames
    /\ rpc' = "propagated"
    /\ events' = events \cup {"setup_failed"}
    /\ UNCHANGED <<outside_runner, metrics, result, oracle_calls, exec_calls,
                   container, has_session, pending, prediction, persisted,
                   finalize_calls, cleanup_calls>>

\* The names pass, the logger is set up, metrics = AgentMetrics(...);
\* metrics.start_timer(); container = None; session = None
RunSetUp ==
    /\ rpc = "validate"
    /\ ValidNames
    /\ metrics' = NewMetrics
    /\ has_session' = FALSE
    /\ rpc' = "construct"
    /\ UNCHANGED <<outside_runner, result, oracle_calls, exec_calls, events,
                   container, pending, prediction, persisted, finalize_calls,
                   cleanup_calls>>

\* session = ContainerSession(...)
RunConstructSession ==
    /\ rpc = "construct"
    /\ has_session' = TRUE
    /\ container' = None
    /\ rpc' = "start"
    /\ UNCHANGED <<outside_runner, metrics, result, oracle_calls, exec_calls,
                   events, pending, prediction, persisted, finalize_calls,
                   cleanup_calls>>

\* session.start() returns
RunStart ==
    /\ rpc = "start"
    /\ container' = Some("container")
    /\ events' = events \cup {"started"}
    /\ rpc' = "create_agent"
    /\ UNCHANGED <<outside_runner, metrics, result, oracle_calls, exec_calls,
                   has_session, pending, prediction, persisted,
                   finalize_calls, cleanup_calls>>

\* session.start() raises, and its caller catches nothing.
RunStartFails_GoesOn ==
    /\ rpc = "start"
    /\ \E created \in BOOLEAN :
          /\ container' = (IF created THEN Some("container") ELSE None)
          /\ events' = events \cup {"start_failed"}
                          \cup (IF created THEN {"created"} ELSE {})
    /\ rpc' = "create_agent"
    /\ UNCHANGED <<outside_runner, metrics, result, oracle_calls, exec_calls,
                   has_session, pending, prediction, persisted,
                   finalize_calls, cleanup_calls>>

\* session.start() raises: to the except clause
RunStartFails ==
    /\ rpc = "start"
    /\ \E created \in BOOLEAN :
          /\ container' = (IF created THEN Some("container") ELSE None)
          /\ events' = events \cup {"start_failed"}
                          \cup (IF created THEN {"created"} ELSE {})
    /\ rpc' = "except"
    /\ UNCHANGED <<outside_runner, metrics, result, oracle_calls, exec_calls,
                   has_session, pending, prediction, persisted,
                   finalize_calls, cleanup_calls>>

\* agent = create_agent(...)
RunCreateAgent ==
    /\ rpc = "create_agent"
    /\ agent \in Agents
    /\ rpc' = "solve"
    /\ UNCHANGED <<outside_runner, metrics, result, oracle_calls, exec_calls,
                   events, container, has_session, pending, prediction,
                   persisted, finalize_calls, cleanup_calls>>

\* create_agent raises: ValueError for a name it does not know, or the
\* import or the constructor of a lazily registered agent fails.
RunCreateAgentFails ==
    /\ rpc = "create_agent"
    /\ agent \notin Agents \/ agent \in LazyAgents
    /\ events' = events \cup {"agent_failed"}
    /\ rpc' = "except"
    /\ UNCHANGED <<outside_runner, metrics, result, oracle_calls, exec_calls,
                   container, has_session, pending, prediction, persisted,
                   finalize_calls, cleanup_calls>>

\* result = agent.solve(instance, session, metrics) returns: the agent
\* finalized the metrics; prediction = {..., KEY_PREDICTION: model_patch}
RunSolveReturns ==
    /\ rpc = "solve"
    /\ \E reason \in ExitReasons, patch \in RunPatches, u \in RunUsages,
          commands \in 0..1 :
          /\ metrics' = finalize([metrics EXCEPT !.input_tokens = u.input,
                                                 !.output_tokens = u.output,
                                                 !.commands_executed = commands],
                                 patch, reason)
          /\ result' = AgentResult(patch, reason)
          /\ prediction' = Prediction(patch)
          /\ oracle_calls' = u.input
          /\ exec_calls' = commands
    /\ finalize_calls' = finalize_calls + 1
    /\ rpc' = "write"
    /\ UNCHANGED <<outside_runner, events, container, has_session, pending,
                   persisted, cleanup_calls>>

\* agent.solve raises, before it finalized the metrics.
RunSolveRaises ==
    /\ rpc = "solve"
    /\ events' = events \cup {"solve_raised"}
    /\ rpc' = "except"
    /\ UNCHANGED <<outside_runner, metrics, result, oracle_calls, exec_calls,
                   container, has_session, pending, prediction, persisted,
                   finalize_calls, cleanup_calls>>

\* KeyboardInterrupt inside the try: no Exception, so the except clause is
\* passed by; the finally clause runs and the interrupt goes on.
RunCancelled ==
    /\ rpc \in {"construct", "create_agent", "solve"}
    /\ events' = events \cup {"cancelled"}
    /\ pending' = "propagate"
    /\ rpc' = "finally"
    /\ UNCHANGED <<outside_runner, metrics, result, oracle_calls, exec_calls,
                   container, has_session, prediction, persisted,
                   finalize_calls, cleanup_calls>>

\* logger.info(...); patch_path.write_text(...); return prediction
RunWritePatch ==
    /\ rpc = "write"
    /\ pending' = "return"
    /\ rpc' = "finally"
    /\ UNCHANGED <<outside_runner, metrics, result, oracle_calls, exec_calls,
                   events, container, has_session, prediction, persisted,
                   finalize_calls, cleanup_calls>>

\* logger.info or patch_path.write_text raises (OSError, UnicodeEncodeError)
RunWritePatchFails ==
    /\ rpc = "write"
    /\ events' = events \cup {"write_failed"}
    /\ rpc' = "except"
    /\ UNCHANGED <<outside_runner, metrics, result, oracle_calls, exec_calls,
                   container, has_session, pending, prediction, persisted,
                   finalize_calls, cleanup_calls>>

\* except Exception: metrics.finalize(None, "error"); return {..., None}
RunExcept ==
    /\ rpc = "except"
    /\ metrics' = finalize(metrics, None, "error")
    /\ finalize_calls' = finalize_calls + 1
    /\ prediction' = Prediction(None)
    /\ pending' = "return"
    /\ rpc' = "finally"
    /\ UNCHANGED <<outside_runner, result, oracle_calls, exec_calls, events,
                   container, has_session, persisted, cleanup_calls>>

\* finally: if metrics.end_time == 0: metrics.finalize(None, "error")
FinallyFinalizes == metrics.end_time = 0

\* ... metrics.save(metrics_path)
RunSaveMetrics ==
    /\ rpc = "finally"
    /\ metrics' = (IF FinallyFinalizes THEN finalize(metrics, None, "error")
                   ELSE metrics)
    /\ finalize_calls' = finalize_calls + (IF FinallyFinalizes THEN 1 ELSE 0)
    /\ persisted' = Some(metrics')
    /\ rpc' = "cleanup"
    /\ UNCHANGED <<outside_runner, result, oracle_calls, exec_calls, events,
                   container, has_session, pending, prediction, cleanup_calls>>

\* ... metrics.save raises: except Exception: pass
RunSaveMetricsFails ==
    /\ rpc = "finally"
    /\ metrics' = (IF FinallyFinalizes THEN finalize(metrics, None, "error")
                   ELSE metrics)
    /\ finalize_calls' = finalize_calls + (IF FinallyFinalizes THEN 1 ELSE 0)
    /\ events' = events \cup {"save_failed"}
    /\ rpc' = "cleanup"
    /\ UNCHANGED <<outside_runner, result, oracle_calls, exec_calls,
                   container, has_session, pending, prediction, persisted,
                   cleanup_calls>>

\* How run_instance_with_agent ends once its finally clause is through.
Ended == IF pending = "return" THEN "returned" ELSE "propagated"

\* A finally clause that leaves the session alone.
RunCleanup_Skips ==
    /\ rpc = "cleanup"
    /\ rpc' = Ended
    /\ UNCHANGED <<outside_runner, metrics, result, oracle_calls, exec_calls,
                   events, container, has_session, pending, prediction,
                   persisted, finalize_calls, cleanup_calls>>

\* if session is not None: session.cleanup(); close_logger(logger)
RunCleanup ==
    /\ rpc = "cleanup"
    /\ IF has_session
       THEN /\ ~cleanup_container(container).raised
            /\ container' = None
            /\ cleanup_calls' = cleanup_calls + 1
            /\ events' = events \cup CleanupEvents
       ELSE UNCHANGED <<container, cleanup_calls, events>>
    /\ rpc' = Ended
    /\ UNCHANGED <<outside_runner, metrics, result, oracle_calls, exec_calls,
                   has_session, pending, prediction, persisted,
                   finalize_calls>>

\* session.cleanup() raises all the same: except Exception: logger.error(...)
RunCleanupRaises ==
    /\ rpc = "cleanup"
    /\ has_session
    /\ cleanup_calls' = cleanup_calls + 1
    /\ events' = events \cup {"cleanup_raised"}
    /\ rpc' = Ended
    /\ UNCHANGED <<outside_runner, metrics, result, oracle_calls, exec_calls,
                   container, has_session, pending, prediction, persisted,
                   finalize_calls>>

RunnerNext ==
    \/ RunValidationFails
    \/ RunSetupFails
    \/ RunSetUp
    \/ RunConstructSession
    \/ RunStart
    \/ RunStartFails
    \/ RunCreateAgent
    \/ RunCreateAgentFails
    \/ RunSolveReturns
    \/ RunSolveRaises
    \/ RunCancelled
    \/ RunWritePatch
    \/ RunWritePatchFails
    \/ RunExcept
    \/ RunSaveMetrics
    \/ RunSaveMetricsFails
    \/ RunCleanup
    \/ RunCleanupRaises

RunnerSpec == RunnerInit /\ [][RunnerNext]_vars

-----------------------------------------------------------------------------
(***************************************************************************)
(* aggregate_metrics.  A quotient is kept as the pair of its terms; the    *)
(* cost and wall-clock fields, which the metrics of this model do not      *)
(* carry, are left out.                                                    *)
(***************************************************************************)
RECURSIVE SumSeq(_)
SumSeq(s) == IF s = <<>> THEN 0 ELSE Head(s) + SumSeq(Tail(s))

\* The empty dict.
EmptyDict == [k \in {} |-> 0]

\* _count_exit_reasons
count_exit_reasons(metrics_list) ==
    [r \in { metrics_list[i].exit_reason : i \in 1..Len(metrics_list) } |->
        Cardinality({ i \in 1..Len(metrics_list) :
                         metrics_list[i].exit_reason = r })]

\* The dict aggregate_metrics builds for n records; n = 0 is a division by
\* zero.
SummaryOf(metrics_list, n) ==
    LET column(F(_)) == [i \in 1..Len(metrics_list) |-> F(metrics_list[i])]
        total_tokens == SumSeq(column(LAMBDA m : m.total_tokens))
        total_input == SumSeq(column(LAMBDA m : m.input_tokens))
        total_output == SumSeq(column(LAMBDA m : m.output_tokens))
        total_commands == SumSeq(column(LAMBDA m : m.commands_executed))
        total_timeouts == SumSeq(column(LAMBDA m : m.commands_timed_out))
        patches_produced ==
            SumSeq(column(LAMBDA m : IF m.patch_produced THEN 1 ELSE 0))
        total_iterations == SumSeq(column(LAMBDA m : m.iterations))
    IN  IF n = 0
        THEN [raised |-> TRUE, value |-> EmptyDict]
        ELSE [raised |-> FALSE,
              value |->
                [num_instances |-> n,
                 patches_produced |-> patches_produced,
                 patch_rate |-> <<patches_produced, n>>,
                 total_iterations |-> total_iterations,
                 avg_iterations |-> <<total_iterations, n>>,
                 total_input_tokens |-> total_input,
                 total_output_tokens |-> total_output,
                 total_tokens |-> total_tokens,
                 avg_tokens_per_instance |-> <<total_tokens, n>>,
                 total_commands_executed |-> total_commands,
                 total_commands_timed_out |-> total_timeouts,
                 exit_reasons |-> count_exit_reasons(metrics_list)]]

\* An aggregate_metrics without its first two lines.
aggregate_metrics_Unguarded(metrics_list) ==
    SummaryOf(metrics_list, Len(metrics_list))

aggregate_metrics(metrics_list) ==
    IF metrics_list = <<>>
    THEN [raised |-> FALSE, value |-> EmptyDict]
    ELSE SummaryOf(metrics_list, Len(metrics_list))

\* How many records a list has at most, and the records it is made of.
MaxList == 2

MetricsSamples ==
    { NewMetrics } \cup
    { finalize([NewMetrics EXCEPT !.iterations = i,
                                  !.input_tokens = u.input,
                                  !.output_tokens = u.output],
               patch, reason) :
        i \in 0..1, u \in Usages, patch \in {None, Some(<<"a">>)},
        reason \in {"completed", "timeout", "error"} }

RECURSIVE MetricsLists(_)
MetricsLists(n) ==
    IF n = 0 THEN { <<>> }
    ELSE LET shorter == MetricsLists(n - 1)
         IN  shorter \cup { Append(l, m) : l \in { k \in shorter : Len(k) = n - 1 },
                                           m \in MetricsSamples }

\* What main does not touch.
outside_main == <<config, pc, clock, locals, metrics, worktree, result, history,
                  session, rpc, names, has_session, pending, finalize_calls,
                  cleanup_calls, extra>>

AggregateInit ==
    /\ ExtraIdle
    /\ LoopIdle
    /\ RunnerIdle
    /\ agent = "dummy"
    /\ worktree = <<>>
    /\ container = None
    /\ command_timeout = 120
    /\ request = NoRequest
    /\ call = NoCall
    /\ mpc = "idle"
    /\ predictions_log = <<>>
    /\ remaining = <<>>
    /\ executed = <<>>
    /\ all_metrics \in MetricsLists(MaxList)
    /\ summary = NoSummary
    /\ runs = 0

\* summary = aggregate_metrics(all_metrics)
Aggregate ==
    /\ ~summary.aggregated
    /\ LET returned == aggregate_metrics(all_metrics)
       IN  summary' = [aggregated |-> TRUE, raised |-> returned.raised,
                       value |-> returned.value]
    /\ UNCHANGED <<outside_main, prediction, persisted, mpc, predictions_log,
                   remaining, executed, all_metrics, runs>>

AggregateNext == Aggregate

AggregateSpec == AggregateInit /\ [][AggregateNext]_vars

-----------------------------------------------------------------------------
(***************************************************************************)
(* main: runs of the orchestrator over one output directory.  A call of    *)
(* run_instance_with_agent is one step; between any two steps the process  *)
(* can be stopped, and a later run starts from the files it left.          *)
(***************************************************************************)
\* How many tasks the dataset has, and how often main is started.
MaxTasks == 2
MaxRuns == 3

\* The instance ids of the dataset, in its order: "a", "aa", ...
Dataset == [i \in 1..MaxTasks |-> [j \in 1..i |-> "a"]]

\* _load_completed_ids
load_completed_ids(log) == { log[i].instance_id : i \in 1..Len(log) }

\* What an attempt leaves in metrics.json, if anything.
SavedMetrics ==
    { None, Some(finalize(NewMetrics, None, "error")),
      Some(finalize(NewMetrics, Some(<<"a">>), "completed")) }

MainInit ==
    /\ ExtraIdle
    /\ LoopIdle
    /\ RunnerIdle
    /\ MainIdle
    /\ agent = "dummy"
    /\ worktree = <<>>
    /\ container = None
    /\ command_timeout = 120
    /\ request = NoRequest
    /\ call = NoCall

\* A main that runs every instance of the dataset.
MainStart_RunsAll ==
    /\ mpc = "idle"
    /\ runs < MaxRuns
    /\ runs' = runs + 1
    /\ remaining' = Dataset
    /\ all_metrics' = <<>>
    /\ summary' = NoSummary
    /\ mpc' = "loop"
    /\ UNCHANGED <<outside_main, prediction, persisted, predictions_log,
                   executed>>

\* main up to its loop: completed_ids = _load_completed_ids(...); remaining =
\* the instances not in it; return if there is none
MainStart ==
    /\ mpc = "idle"
    /\ runs < MaxRuns
    /\ runs' = runs + 1
    /\ LET completed_ids == load_completed_ids(predictions_log)
           left == SelectSeq(Dataset, LAMBDA d : d \notin completed_ids)
       IN  /\ remaining' = left
           /\ mpc' = (IF left = <<>> THEN "idle" ELSE "loop")
    /\ all_metrics' = <<>>
    /\ summary' = NoSummary
    /\ UNCHANGED <<outside_main, prediction, persisted, predictions_log,
                   executed>>

\* What is noted of an execution: the instance, whether the log had a
\* record of it then, and the exit reason the attempt ended with ("" when
\* run_instance_with_agent raised).
Execution(id, reason) ==
    [instance_id |-> id,
     logged |-> id \in load_completed_ids(predictions_log),
     exit_reason |-> reason]

\* The exit reasons an attempt ends with, as far as main tells them apart:
\* the oracle failed, or not.
AttemptReasons == {"completed", "error"}

\* prediction = run_instance_with_agent(instance, ...) returns
MainRunInstance ==
    /\ mpc = "loop"
    /\ remaining # <<>>
    /\ LET id == Head(remaining)
       IN  /\ \E patch \in {None, Some(<<"a">>)} :
                 prediction' = Some([instance_id |-> id, model_patch |-> patch])
           /\ \E reason \in AttemptReasons :
                 /\ executed' = Append(executed, Execution(id, reason))
                 /\ persisted' \in { m \in SavedMetrics :
                                         m # None => m[1].exit_reason = reason }
    /\ mpc' = "append"
    /\ UNCHANGED <<outside_main, predictions_log, remaining, all_metrics,
                   summary, runs>>

\* run_instance_with_agent raises; the loop has no handler and main ends.
MainRunInstanceRaises ==
    /\ mpc = "loop"
    /\ remaining # <<>>
    /\ executed' = Append(executed, Execution(Head(remaining), ""))
    /\ remaining' = <<>>
    /\ all_metrics' = <<>>
    /\ mpc' = "idle"
    /\ UNCHANGED <<outside_main, prediction, persisted, predictions_log,
                   summary, runs>>

\* _append_prediction(predictions_path, prediction); the metrics of the
\* instance are loaded if metrics.json exists
MainAppend ==
    /\ mpc = "append"
    /\ predictions_log' = Append(predictions_log, prediction[1])
    /\ all_metrics' = (IF persisted # None
                       THEN Append(all_metrics, persisted[1])
                       ELSE all_metrics)
    /\ remaining' = Tail(remaining)
    /\ mpc' = "loop"
    /\ UNCHANGED <<outside_main, prediction, persisted, executed, summary,
                   runs>>

\* After the loop: if all_metrics: summary = aggregate_metrics(all_metrics)
MainFinish ==
    /\ mpc = "loop"
    /\ remaining = <<>>
    /\ summary' = (IF all_metrics # <<>>
                   THEN LET returned == aggregate_metrics(all_metrics)
                        IN  [aggregated |-> TRUE, raised |-> returned.raised,
                             value |-> returned.value]
                   ELSE summary)
    /\ mpc' = "idle"
    /\ UNCHANGED <<outside_main, prediction, persisted, predictions_log,
                   remaining, executed, all_metrics, runs>>

\* The process is stopped between two steps: its locals are gone, the
\* files stay as they are.
MainInterrupted ==
    /\ mpc \in {"loop", "append"}
    /\ remaining' = <<>>
    /\ all_metrics' = <<>>
    /\ mpc' = "idle"
    /\ UNCHANGED <<outside_main, prediction, persisted, predictions_log,
                   executed, summary, runs>>

MainNext ==
    \/ MainStart
    \/ MainRunInstance
    \/ MainRunInstanceRaises
    \/ MainAppend
    \/ MainFinish
    \/ MainInterrupted

MainSpec == MainInit /\ [][MainNext]_vars

(***************************************************************************)
(* The tool result of execute_command: _handle_execute runs the command on *)
(* a started session and builds the text handed back to the oracle.  The   *)
(* conversation ceiling is counted in symbols, as the sandbox ceiling is.  *)
(***************************************************************************)
OUTPUT_TRUNCATION_CHARS == 2    \* 50_000 in the source, scaled down
HALF_TRUNCATION == OUTPUT_TRUNCATION_CHARS \div 2

\* The marker _handle_execute puts where it cut the output.
ConversationMarker(n) ==
    <<"\n", "\n", "... [output truncated: ", ToString(n), " chars total] ...",
      "\n", "\n">>

\* The text _handle_execute builds from the CommandResult r.
handle_execute(r) ==
    LET cut == Len(r.output) > OUTPUT_TRUNCATION_CHARS
        output == IF cut
                  THEN SubSeq(r.output, 1, HALF_TRUNCATION)
                           \o ConversationMarker(Len(r.output))
                           \o Suffix(r.output, HALF_TRUNCATION)
                  ELSE r.output
        parts == (IF output # <<>> THEN <<output>> ELSE <<>>)
                     \o << <<ExitCodeLine(r.exit_code)>> >>
                     \o (IF r.timed_out THEN << <<"Command timed out">> >> ELSE <<>>)
    IN  [shortened |-> cut, output |-> output, text |-> JoinLines(parts)]

ToolResultInit ==
    /\ LoopIdle
    /\ RunnerIdle
    /\ MainIdle
    /\ ToolingIdle
    /\ ReposIdle
    /\ CacheIdle
    /\ ParallelIdle
    /\ agent \in LoopAgents
    /\ worktree = <<>>
    /\ container = Some("container")
    /\ command_timeout = 120
    /\ request \in ExecuteRequests
    /\ call = NoCall

\* ClaudeAgent._handle_execute, GeminiAgent._handle_execute
HandleExecute ==
    /\ ~call.done
    /\ request.op = "execute"
    /\ call' = execute(container, command_timeout, request.timeout, request)
    /\ metrics' = [metrics EXCEPT
                       !.commands_executed = @ + 1,
                       !.commands_timed_out =
                           IF ~call'.raised /\ call'.result.timed_out
                           THEN @ + 1 ELSE @]
    /\ result_text' = (IF call'.raised THEN NoText ELSE handle_execute(call'.result))
    /\ UNCHANGED <<config, pc, clock, locals, worktree, result, history,
                   container, command_timeout, request, runner, orchestration,
                   environ, subprocess_env, repos, cache, parallel>>

ToolResultNext == HandleExecute

ToolResultSpec == ToolResultInit /\ [][ToolResultNext]_vars

(***************************************************************************)
(* The environment of the CLI subprocesses.  An environment is a function  *)
(* from the names of its variables to their values.  Each CLI agent starts *)
(* its subprocess once in solve.                                           *)
(***************************************************************************)
KEEP_KEYS ==
    {"PATH", "HOME", "USER", "SHELL", "LANG", "LC_ALL", "LC_CTYPE",
     "TERM", "TMPDIR", "XDG_CONFIG_HOME", "XDG_DATA_HOME", "XDG_CACHE_HOME",
     "DOCKER_HOST", "DOCKER_TLS_VERIFY", "DOCKER_CERT_PATH"}

\* The variables the parent process may hold, and their values.
EnvNames == {"PATH", "DOCKER_HOST", "ANTHROPIC_API_KEY", "CLAUDECODE"}
EnvValues == {"v", "w"}
Environments == UNION { [K -> EnvValues] : K \in SUBSET EnvNames }

\* {k: v for k, v in os.environ.items() if k in _KEEP_KEYS}
clean_env(env) == [k \in (DOMAIN env) \cap KEEP_KEYS |-> env[k]]

CliAgents == {"claude-code", "codex"}

EnvInit ==
    /\ LoopIdle
    /\ RunnerIdle
    /\ MainIdle
    /\ agent \in CliAgents
    /\ worktree = <<>>
    /\ container = Some("container")
    /\ command_timeout = 120
    /\ request = NoRequest
    /\ call = NoCall
    /\ result_text = NoText
    /\ ReposIdle
    /\ CacheIdle
    /\ ParallelIdle
    /\ environ \in Environments
    /\ subprocess_env = None

\* ClaudeCodeAgent.solve up to subprocess.run(cmd, ..., env=env)
ClaudeCodeLaunch ==
    /\ agent = "claude-code"
    /\ subprocess_env = None
    /\ subprocess_env' = Some(clean_env(environ))
    /\ UNCHANGED <<config, pc, clock, locals, metrics, worktree, result, history,
                   session, runner, orchestration, result_text, environ, repos, cache, parallel>>

\* OpenAICodexAgent.solve up to subprocess.run(cmd, ...): no env is passed,
\* and the subprocess inherits the environment of the parent.
CodexLaunch ==
    /\ agent = "codex"
    /\ subprocess_env = None
    /\ subprocess_env' = Some(environ)
    /\ UNCHANGED <<config, pc, clock, locals, metrics, worktree, result, history,
                   session, runner, orchestration, result_text, environ, repos, cache, parallel>>

EnvNext ==
    \/ ClaudeCodeLaunch
    \/ CodexLaunch

EnvSpec == EnvInit /\ [][EnvNext]_vars

(***************************************************************************)
(* HFDataSource: the generator iter_repos_with_datapoints and the calls of *)
(* delete_repo by its consumers.  The repos of repo_zip_paths are numbered *)
(* in their order.  The generator goes on whenever it can; a consumer      *)
(* gives a yielded repo to delete_repo once, at any later moment.  A       *)
(* directory is absent, cloned, partial (a clone that failed half-way) or  *)
(* stale (left at repo_path before the iteration began).                   *)
(***************************************************************************)
HarnessIdle ==
    /\ LoopIdle
    /\ RunnerIdle
    /\ MainIdle
    /\ agent = "dummy"
    /\ worktree = <<>>
    /\ container = None
    /\ command_timeout = 120
    /\ request = NoRequest
    /\ call = NoCall

\* _safe_delete(path): the directories it can leave.  shutil.rmtree can
\* fail, and the failure is logged and swallowed.
safe_delete(dir) == IF dir = "absent" THEN {"absent"} ELSE {"absent", dir}

RepoInit ==
    /\ HarnessIdle
    /\ ToolingIdle
    /\ CacheIdle
    /\ ParallelIdle
    /\ max_repos_on_disk \in 1..MaxSlots
    /\ semaphore = max_repos_on_disk
    /\ gpc = "next_repo"
    /\ position = 0
    /\ repo_groups \in SUBSET RepoIds
    /\ disk \in [RepoIds -> {"absent", "stale"}]
    /\ outstanding = {}
    /\ releases = [r \in RepoIds |-> 0]

\* for repo_zip_path in repo_zip_paths: ... if repo_name not in repo_groups:
\* continue
GenNextRepo ==
    /\ gpc = "next_repo"
    /\ position < MaxRepos
    /\ position' = position + 1
    /\ gpc' = (IF position + 1 \in repo_groups THEN "acquire" ELSE "next_repo")
    /\ UNCHANGED <<harness, tooling, cache, parallel, max_repos_on_disk, semaphore, repo_groups,
                   disk, outstanding, releases>>

\* The for loop ends and the generator returns.
GenExhausted ==
    /\ gpc = "next_repo"
    /\ position = MaxRepos
    /\ gpc' = "done"
    /\ UNCHANGED <<harness, tooling, cache, parallel, max_repos_on_disk, semaphore, position,
                   repo_groups, disk, outstanding, releases>>

\* self._semaphore.acquire(): blocks while no slot is free
GenAcquire ==
    /\ gpc = "acquire"
    /\ semaphore > 0
    /\ semaphore' = semaphore - 1
    /\ gpc' = "clone"
    /\ UNCHANGED <<harness, tooling, cache, parallel, max_repos_on_disk, position, repo_groups,
                   disk, outstanding, releases>>

\* if not os.path.exists(repo_path): self._clone_repo(...); the data points
\* are enriched, each in its own try; yield
GenCloneAndYield ==
    /\ gpc = "clone"
    /\ disk' = [disk EXCEPT ![position] = IF @ = "absent" THEN "cloned" ELSE @]
    /\ outstanding' = outstanding \cup {position}
    /\ gpc' = "next_repo"
    /\ UNCHANGED <<harness, tooling, cache, parallel, max_repos_on_disk, semaphore, position,
                   repo_groups, releases>>

\* self._clone_repo raises, before or while it extracts the archive; except
\* Exception: self._safe_delete(repo_path); self._semaphore.release()
GenCloneFails ==
    /\ gpc = "clone"
    /\ disk[position] = "absent"
    /\ \E left \in {"absent", "partial"} :
           disk' \in { [disk EXCEPT ![position] = d] : d \in safe_delete(left) }
    /\ semaphore' = semaphore + 1
    /\ releases' = [releases EXCEPT ![position] = @ + 1]
    /\ gpc' = "next_repo"
    /\ UNCHANGED <<harness, tooling, cache, parallel, max_repos_on_disk, position, repo_groups,
                   outstanding>>

\* delete_repo(repo_path), called by a consumer for a repo it was yielded
DeleteRepo ==
    /\ \E r \in outstanding :
           /\ disk' \in { [disk EXCEPT ![r] = d] : d \in safe_delete(disk[r]) }
           /\ semaphore' = semaphore + 1
           /\ releases' = [releases EXCEPT ![r] = @ + 1]
           /\ outstanding' = outstanding \ {r}
    /\ UNCHANGED <<harness, tooling, cache, parallel, max_repos_on_disk, gpc, position,
                   repo_groups>>

RepoNext ==
    \/ GenNextRepo
    \/ GenExhausted
    \/ GenAcquire
    \/ GenCloneAndYield
    \/ GenCloneFails
    \/ DeleteRepo

RepoSpec == RepoInit /\ [][RepoNext]_vars

\* The generator goes on when it can, and a consumer does give each repo it
\* was yielded to delete_repo.
RepoFairSpec == RepoSpec /\ WF_vars(RepoNext)

(***************************************************************************)
(* PromptCache under threads: each writer thread calls put once, readers   *)
(* call has and get at any moment.  The line of an entry reaches the file  *)
(* in two pieces, its head and its tail with the newline, as a buffered    *)
(* write of a long line does; a piece is <<entry, part>>.  The messages    *)
(* of an entry are named after the thread that composed them, 0 for an     *)
(* entry that was in the file when the cache was constructed.              *)
(***************************************************************************)
Entry(id, t) == [text_id |-> id, messages |-> t]
Line(e) == << <<e, "head">>, <<e, "tail">> >>

CacheInit ==
    /\ HarnessIdle
    /\ ToolingIdle
    /\ ReposIdle
    /\ ParallelIdle
    /\ lock = 0
    /\ \E loaded \in SUBSET {"x"} :
           /\ cache_index = [id \in TextIds |->
                                 IF id \in loaded THEN Some(Entry(id, 0)) ELSE None]
           /\ cache_file = (IF loaded = {} THEN <<>> ELSE Line(Entry("x", 0)))
    /\ tpc = [t \in Writers |-> "start"]
    /\ puts \in [Writers -> TextIds]
    /\ seen = NothingSeen

\* A put that enters without waiting for the lock.
PutLock_NoWait ==
    /\ \E t \in Writers :
           /\ tpc[t] = "start"
           /\ lock' = t
           /\ tpc' = [tpc EXCEPT ![t] = "locked"]
    /\ UNCHANGED <<harness, tooling, repos, parallel, cache_index, cache_file, puts, seen>>

\* put: with self._lock
PutLock ==
    /\ \E t \in Writers :
           /\ tpc[t] = "start"
           /\ lock = 0
           /\ lock' = t
           /\ tpc' = [tpc EXCEPT ![t] = "locked"]
    /\ UNCHANGED <<harness, tooling, repos, parallel, cache_index, cache_file, puts, seen>>

\* put: self._index[text_id] = entry
PutIndex ==
    /\ \E t \in Writers :
           /\ tpc[t] = "locked"
           /\ cache_index' = [cache_index EXCEPT ![puts[t]] = Some(Entry(puts[t], t))]
           /\ tpc' = [tpc EXCEPT ![t] = "indexed"]
    /\ UNCHANGED <<harness, tooling, repos, parallel, lock, cache_file, puts, seen>>

\* put: open(self._cache_file, 'a'); f.write(json.dumps(entry) + "\n"): the
\* first piece of the line reaches the file
PutWriteHead ==
    /\ \E t \in Writers :
           /\ tpc[t] = "indexed"
           /\ cache_file' = Append(cache_file, <<Entry(puts[t], t), "head">>)
           /\ tpc' = [tpc EXCEPT ![t] = "writing"]
    /\ UNCHANGED <<harness, tooling, repos, parallel, lock, cache_index, puts, seen>>

\* put: the file is closed, and the rest of the line reaches it
PutWriteTail ==
    /\ \E t \in Writers :
           /\ tpc[t] = "writing"
           /\ cache_file' = Append(cache_file, <<Entry(puts[t], t), "tail">>)
           /\ tpc' = [tpc EXCEPT ![t] = "written"]
    /\ UNCHANGED <<harness, tooling, repos, parallel, lock, cache_index, puts, seen>>

\* put: the lock is released and put returns
PutUnlock ==
    /\ \E t \in Writers :
           /\ tpc[t] = "written"
           /\ lock' = (IF lock = t THEN 0 ELSE lock)
           /\ tpc' = [tpc EXCEPT ![t] = "done"]
    /\ UNCHANGED <<harness, tooling, repos, parallel, cache_index, cache_file, puts, seen>>

\* has(text_id), from any thread
CacheHas ==
    /\ \E id \in TextIds :
           seen' = [op |-> "has", text_id |-> id, value |-> None,
                    found |-> cache_index[id] # None]
    /\ UNCHANGED <<harness, tooling, repos, parallel, lock, cache_index, cache_file, tpc, puts>>

\* get(text_id), from any thread
CacheGet ==
    /\ \E id \in TextIds :
           seen' = [op |-> "get", text_id |-> id, value |-> cache_index[id],
                    found |-> cache_index[id] # None]
    /\ UNCHANGED <<harness, tooling, repos, parallel, lock, cache_index, cache_file, tpc, puts>>

CacheNext ==
    \/ PutLock
    \/ PutIndex
    \/ PutWriteHead
    \/ PutWriteTail
    \/ PutUnlock
    \/ CacheHas
    \/ CacheGet

CacheSpec == CacheInit /\ [][CacheNext]_vars

(***************************************************************************)
(* _run_parallel: runs of the benchmark in parallel mode over one results  *)
(* directory.  The main thread walks the repos the iterator yields, the    *)
(* worker threads of the pool finish the LLM calls at any moment.  Between *)
(* any two steps the process can be stopped, and a later run starts from   *)
(* the files it left.  A prompt is named after the run that composed it.   *)
(* The slots of the iterator are the matter of RepoSpec: here a repo is    *)
(* yielded, or fails to be cloned, in one step.                            *)
(***************************************************************************)
MaxParRuns == 2

\* The data points of each repo, by text_id.
RepoData(r) ==
    IF r = 1 THEN <<"x", "y">> ELSE IF r = 2 THEN <<"z">> ELSE <<>>

\* The repos after position p that data points refer to.
ReposAfter(p) == { r \in RepoIds : r > p /\ RepoData(r) # <<>> }
NextRepo(p) == CHOOSE r \in ReposAfter(p) : \A q \in ReposAfter(p) : r <= q

\* _load_existing_ids
load_existing_ids(file) == { file[k] : k \in 1..Len(file) }

\* PromptCache._load_existing: the entry of the last whole line of each
\* text_id; a line that does not parse is skipped.
load_existing(file) ==
    [id \in TextIds |->
        LET whole == { k \in 1..(Len(file) - 1) :
                           /\ file[k][2] = "head"
                           /\ file[k + 1][2] = "tail"
                           /\ file[k][1] = file[k + 1][1]
                           /\ (k = 1 \/ file[k - 1][2] = "tail")
                           /\ file[k][1].text_id = id }
        IN  IF whole = {} THEN None
            ELSE Some(file[CHOOSE k \in whole : \A l \in whole : l <= k][1])]

\* The text_id has a line in the cache file.
CachedOnDisk(id) == load_existing(cache_file)[id] # None

ParallelInit ==
    /\ HarnessIdle
    /\ ToolingIdle
    /\ ReposIdle
    /\ CacheIdle
    /\ ParallelIdle

\* A start that constructs an empty prompt cache.
ParStart_NoReload ==
    /\ ppc = "idle"
    /\ pruns < MaxParRuns
    /\ pruns' = pruns + 1
    /\ cache_index' = NoEntries
    /\ existing_ids' = load_existing_ids(results_file)
    /\ futures' = [id \in TextIds |-> NoFuture]
    /\ position' = 0
    /\ datapoints' = <<>>
    /\ dpi' = 0
    /\ ppc' = "iterate"
    /\ UNCHANGED <<harness, tooling, max_repos_on_disk, semaphore, gpc,
                   repo_groups, disk, outstanding, releases, lock, cache_file,
                   tpc, puts, seen, results_file, submissions, compositions,
                   failures>>

\* _run_parallel up to its loop: prompt_cache = PromptCache(...);
\* existing_ids = _load_existing_ids(results_path)
ParStart ==
    /\ ppc = "idle"
    /\ pruns < MaxParRuns
    /\ pruns' = pruns + 1
    /\ cache_index' = load_existing(cache_file)
    /\ existing_ids' = load_existing_ids(results_file)
    /\ futures' = [id \in TextIds |-> NoFuture]
    /\ position' = 0
    /\ datapoints' = <<>>
    /\ dpi' = 0
    /\ ppc' = "iterate"
    /\ UNCHANGED <<harness, tooling, max_repos_on_disk, semaphore, gpc,
                   repo_groups, disk, outstanding, releases, lock, cache_file,
                   tpc, puts, seen, results_file, submissions, compositions,
                   failures>>

\* The iterator yields the next repo: it is on disk, with those of its data
\* points that could be enriched.
ParNextRepo ==
    /\ ppc = "iterate"
    /\ ReposAfter(position) # {}
    /\ LET r == NextRepo(position)
       IN  /\ position' = r
           /\ disk' = [disk EXCEPT ![r] = IF @ = "absent" THEN "cloned" ELSE @]
           /\ \E enriched \in SUBSET TextIds :
                  datapoints' = SelectSeq(RepoData(r), LAMBDA d : d \in enriched)
    /\ dpi' = 1
    /\ ppc' = "datapoint"
    /\ UNCHANGED <<harness, tooling, max_repos_on_disk, semaphore, gpc,
                   repo_groups, outstanding, releases, cache, pruns,
                   results_file, existing_ids, futures, submissions,
                   compositions, failures>>

\* The clone of the next repo fails: the iterator yields nothing for it and
\* goes on.
ParRepoFails ==
    /\ ppc = "iterate"
    /\ ReposAfter(position) # {}
    /\ disk[NextRepo(position)] = "absent"
    /\ position' = NextRepo(position)
    /\ UNCHANGED <<harness, tooling, max_repos_on_disk, semaphore, gpc,
                   repo_groups, disk, outstanding, releases, cache, parallel>>

\* if text_id in existing_ids: continue
ParSkip ==
    /\ ppc = "datapoint"
    /\ dpi <= Len(datapoints)
    /\ datapoints[dpi] \in existing_ids
    /\ dpi' = dpi + 1
    /\ UNCHANGED <<harness, tooling, repos, cache, ppc, pruns, results_file,
                   existing_ids, datapoints, futures, submissions,
                   compositions, failures>>

\* The call submitted for text_id id with the messages of the cached entry.
Submitted(id, cached) ==
    /\ futures' = [futures EXCEPT
                       ![id] = [state |-> "running", messages |-> cached.messages]]
    /\ submissions' = submissions \cup
                          { [run |-> pruns, text_id |-> id,
                             had_record |-> id \in load_existing_ids(results_file)] }

\* prompt_cache.has(text_id) holds: cached = prompt_cache.get(text_id);
\* executor.submit(_process_single, backbone, cached['messages'], text_id)
ParSubmitCached ==
    /\ ppc = "datapoint"
    /\ dpi <= Len(datapoints)
    /\ datapoints[dpi] \notin existing_ids
    /\ cache_index[datapoints[dpi]] # None
    /\ Submitted(datapoints[dpi], cache_index[datapoints[dpi]][1])
    /\ dpi' = dpi + 1
    /\ UNCHANGED <<harness, tooling, repos, cache, ppc, pruns, results_file,
                   existing_ids, datapoints, compositions, failures>>

\* prompt_cache.has(text_id) does not hold: the prompt is composed and put
\* into the cache, then submitted from the cache
ParComposeAndSubmit ==
    /\ ppc = "datapoint"
    /\ dpi <= Len(datapoints)
    /\ datapoints[dpi] \notin existing_ids
    /\ cache_index[datapoints[dpi]] = None
    /\ LET id == datapoints[dpi]
           entry == Entry(id, pruns)
       IN  /\ compositions' = compositions \cup
                                  { [run |-> pruns, text_id |-> id,
                                     was_cached |-> CachedOnDisk(id)] }
           /\ cache_index' = [cache_index EXCEPT ![id] = Some(entry)]
           /\ cache_file' = cache_file \o Line(entry)
           /\ Submitted(id, cache_index'[id][1])
    /\ dpi' = dpi + 1
    /\ UNCHANGED <<harness, tooling, repos, lock, tpc, puts, seen, ppc, pruns,
                   results_file, existing_ids, datapoints, failures>>

\* compose_chat or put raises: nothing handles it, and _run_parallel ends
\* with the repo on disk.
ParComposeRaises ==
    /\ ppc = "datapoint"
    /\ dpi <= Len(datapoints)
    /\ datapoints[dpi] \notin existing_ids
    /\ cache_index[datapoints[dpi]] = None
    /\ compositions' = compositions \cup
                           { [run |-> pruns, text_id |-> datapoints[dpi],
                              was_cached |-> CachedOnDisk(datapoints[dpi])] }
    /\ futures' = [id \in TextIds |-> NoFuture]
    /\ datapoints' = <<>>
    /\ dpi' = 0
    /\ ppc' = "idle"
    /\ UNCHANGED <<harness, tooling, repos, cache, pruns, results_file,
                   existing_ids, submissions, failures>>

\* A loop that deletes the repo before it has gone through its data points.
ParDeleteRepo_Early ==
    /\ ppc = "datapoint"
    /\ disk' \in { [disk EXCEPT ![position] = d] : d \in safe_delete(disk[position]) }
    /\ ppc' = "iterate"
    /\ UNCHANGED <<harness, tooling, max_repos_on_disk, semaphore, gpc, position,
                   repo_groups, outstanding, releases, cache, pruns,
                   results_file, existing_ids, datapoints, dpi, futures,
                   submissions, compositions, failures>>

\* After the data points of the repo: data_src.delete_repo(repo_path)
ParDeleteRepo ==
    /\ ppc = "datapoint"
    /\ dpi > Len(datapoints)
    /\ disk' \in { [disk EXCEPT ![position] = d] : d \in safe_delete(disk[position]) }
    /\ ppc' = "iterate"
    /\ UNCHANGED <<harness, tooling, max_repos_on_disk, semaphore, gpc, position,
                   repo_groups, outstanding, releases, cache, pruns,
                   results_file, existing_ids, datapoints, dpi, futures,
                   submissions, compositions, failures>>

\* The iterator is exhausted: phase 2 begins.
ParIterated ==
    /\ ppc = "iterate"
    /\ ReposAfter(position) = {}
    /\ ppc' = "collect"
    /\ UNCHANGED <<harness, tooling, repos, cache, pruns, results_file,
                   existing_ids, datapoints, dpi, futures, submissions,
                   compositions, failures>>

\* _process_single returns in a worker thread
WorkerReturns ==
    /\ ppc # "idle"
    /\ \E id \in TextIds :
           /\ futures[id].state = "running"
           /\ futures' = [futures EXCEPT ![id].state = "ok"]
           /\ failures' = failures \ {id}
    /\ UNCHANGED <<harness, tooling, repos, cache, ppc, pruns, results_file,
                   existing_ids, datapoints, dpi, submissions, compositions>>

\* backbone.call_llm raises in a worker thread
WorkerRaises ==
    /\ ppc # "idle"
    /\ \E id \in TextIds :
           /\ futures[id].state = "running"
           /\ futures' = [futures EXCEPT ![id].state = "failed"]
           /\ failures' = failures \cup {id}
    /\ UNCHANGED <<harness, tooling, repos, cache, ppc, pruns, results_file,
                   existing_ids, datapoints, dpi, submissions, compositions>>

\* for future in as_completed(futures): result = future.result(); a line is
\* written to results.jsonl
ParCollectResult ==
    /\ ppc = "collect"
    /\ \E id \in TextIds :
           /\ futures[id].state = "ok"
           /\ results_file' = Append(results_file, id)
           /\ futures' = [futures EXCEPT ![id].state = "collected"]
    /\ UNCHANGED <<harness, tooling, repos, cache, ppc, pruns, existing_ids,
                   datapoints, dpi, submissions, compositions, failures>>

\* future.result() raises: the failure is logged, nothing is written
ParCollectFailure ==
    /\ ppc = "collect"
    /\ \E id \in TextIds :
           /\ futures[id].state = "failed"
           /\ futures' = [futures EXCEPT ![id].state = "collected"]
    /\ UNCHANGED <<harness, tooling, repos, cache, ppc, pruns, results_file,
                   existing_ids, datapoints, dpi, submissions, compositions,
                   failures>>

\* Every future was collected: _run_parallel returns.
ParDone ==
    /\ ppc = "collect"
    /\ \A id \in TextIds : futures[id].state \in {"none", "collected"}
    /\ futures' = [id \in TextIds |-> NoFuture]
    /\ datapoints' = <<>>
    /\ dpi' = 0
    /\ ppc' = "idle"
    /\ UNCHANGED <<harness, tooling, repos, cache, pruns, results_file,
                   existing_ids, submissions, compositions, failures>>

\* The process is stopped between two steps: its locals and the calls in
\* flight are gone, the files and the repos on disk stay as they are.
ParInterrupted ==
    /\ ppc # "idle"
    /\ futures' = [id \in TextIds |-> NoFuture]
    /\ datapoints' = <<>>
    /\ dpi' = 0
    /\ ppc' = "idle"
    /\ UNCHANGED <<harness, tooling, repos, cache, pruns, results_file,
                   existing_ids, submissions, compositions, failures>>

ParallelNext ==
    \/ ParStart
    \/ ParNextRepo
    \/ ParRepoFails
    \/ ParSkip
    \/ ParSubmitCached
    \/ ParComposeAndSubmit
    \/ ParComposeRaises
    \/ ParDeleteRepo
    \/ ParIterated
    \/ WorkerReturns
    \/ WorkerRaises
    \/ ParCollectResult
    \/ ParCollectFailure
    \/ ParDone
    \/ ParInterrupted

ParallelSpec == ParallelInit /\ [][ParallelNext]_vars

(***************************************************************************)
(* Properties of the control loop.                                         *)
(*                                                                         *)
(* The loop has stopped when pc is "get_patch" or "returned"; solve has    *)
(* returned its AgentResult when pc is "returned"; pc is "raised" when an  *)
(* exception left solve.  events records what the inputs of the run held,  *)
(* independently of what the code made of them.                            *)
(***************************************************************************)
LoopStopped == pc \in {"get_patch", "returned"}

\* The cumulative tokens meet a positive max_token_budget.
BudgetSpent ==
    /\ max_token_budget > 0
    /\ metrics.input_tokens + metrics.output_tokens >= max_token_budget

\* Inputs that end a run before the iteration cap: a plain answer, a Submit
\* or GiveUp action, an oracle error (an exception, or Gemini's response
\* without candidates).
EndingEvents ==
    {"answer", "submit_patch", "give_up", "oracle_error", "no_candidates"}

\* C1: the oracle is never invoked more than max_iterations times, and a
\* run of the loop that returns after max_iterations invocations, none of
\* which produced a terminal action or an oracle error and none of which
\* exhausted the token budget, returns exit_reason = max_iterations.
C1_IterationCap ==
    agent \in LoopAgents =>
        /\ oracle_calls <= max_iterations
        /\ ( /\ pc = "returned"
             /\ oracle_calls = max_iterations
             /\ events \cap EndingEvents = {}
             /\ ~BudgetSpent )
           => /\ result.exit_reason = "max_iterations"
              /\ metrics.exit_reason = "max_iterations"

\* A run of two turns, each executing a command, that ends at the cap.
C1_Witness ==
    /\ agent \in LoopAgents
    /\ pc = "returned"
    /\ max_iterations = 2
    /\ oracle_calls = 2
    /\ metrics.commands_executed >= 2
    /\ result.exit_reason = "max_iterations"

\* C2: once the wall clock is past agent_timeout at a turn boundary, no
\* further oracle invocation is made and no further action's command is
\* dispatched to the sandbox, whatever max_iterations is.  (The `git diff`
\* of the terminal patch capture is not an action's command.)
C2_NoWorkAfterTimeout ==
    [][ "boundary_over" \in events' =>
            /\ oracle_calls' = oracle_calls
            /\ exec_calls' = exec_calls ]_vars

\* A run stopped by the wall clock after one turn, with iterations left.
C2_Witness ==
    /\ agent \in LoopAgents
    /\ pc = "returned"
    /\ "boundary_over" \in events
    /\ oracle_calls = 1
    /\ exec_calls >= 1
    /\ max_iterations = 2
    /\ result.exit_reason = "timeout"

\* C3: whenever the loop stops at a turn boundary at which the wall clock
\* is past agent_timeout, the boundary that follows the max_iterations-th
\* turn included, exit_reason is timeout.  (Stated for runs with at least
\* one turn.)
C3_TimeoutBeforeCap ==
    ( /\ agent \in LoopAgents
      /\ max_iterations >= 1
      /\ LoopStopped
      /\ "boundary_over" \in events )
    => exit_reason = "timeout"

\* C4: with a positive max_token_budget, as soon as the cumulative tokens
\* after an oracle call meet the budget the loop has stopped with
\* exit_reason = token_budget and no action of that turn was dispatched;
\* with max_token_budget = 0 the exit reason is never token_budget.
C4_TokenBudget ==
    agent \in LoopAgents =>
        /\ BudgetSpent =>
              /\ LoopStopped
              /\ exit_reason = "token_budget"
              /\ dispatched = <<>>
              /\ pc = "returned" => result.exit_reason = "token_budget"
        /\ max_token_budget = 0 =>
              /\ exit_reason # "token_budget"
              /\ result.exit_reason # "token_budget"

\* The budget is met by the second oracle call, after a turn with a command.
C4_Witness ==
    /\ agent \in LoopAgents
    /\ pc = "returned"
    /\ oracle_calls = 2
    /\ metrics.commands_executed >= 1
    /\ metrics.input_tokens + metrics.output_tokens = max_token_budget
    /\ result.exit_reason = "token_budget"

\* C5: an oracle call that raises ends the loop with exit_reason = error
\* and no exception leaves solve: the step leaves the token and command
\* counters as they were and dispatches nothing, and the patch capture and
\* the result construction follow.
C5_Counters ==
    <<metrics.input_tokens, metrics.output_tokens, metrics.commands_executed,
      metrics.commands_timed_out, exec_calls>>

C5_OracleFailure ==
    /\ [][ ("oracle_error" \in events' /\ "oracle_error" \notin events) =>
               /\ pc' = "get_patch"
               /\ exit_reason' = "error"
               /\ C5_Counters' = C5_Counters
               /\ dispatched' = <<>> ]_vars
    /\ []( "oracle_error" \in events =>
               /\ LoopStopped
               /\ exit_reason = "error"
               /\ pc = "get_patch" => ENABLED (PatchCaptureFails \/ PatchCaptured)
               /\ pc = "returned" =>
                      /\ result.returned
                      /\ result.exit_reason = "error"
                      /\ metrics.exit_reason = "error"
                      /\ Len(patch_calls) = 1 )

\* The oracle fails on the second turn, after a turn that spent tokens and
\* executed a command; solve has returned.
C5_Witness ==
    /\ "oracle_error" \in events
    /\ pc = "returned"
    /\ oracle_calls = 2
    /\ metrics.commands_executed >= 1
    /\ metrics.input_tokens >= 1
    /\ result.exit_reason = "error"

\* The tool-use blocks among the content blocks read, in order.
ToolBlocks(content) == SelectSeq(content, IsToolUse)

\* The first call of get_patch returned text and the result carries it (an
\* empty text as no patch).
CarriesCapturedPatch ==
    /\ Len(patch_calls) = 1
    /\ ~patch_calls[1].raised
    /\ patch_calls[1].text # EmptyText => result.model_patch = <<patch_calls[1].text>>
    /\ patch_calls[1].text = EmptyText => result.model_patch = None

\* C6 as claimed: a response without an actionable request ends the run in
\* that turn with exit_reason = completed and without executing a command.
C6_PlainAnswerCompletes ==
    (agent \in LoopAgents /\ "answer" \in events) =>
        /\ LoopStopped
        /\ exit_reason = "completed"
        /\ dispatched = <<>>

\* C6 amended: a response without an actionable request whose oracle call
\* does not exhaust the token budget ends the run in that turn with
\* exit_reason = completed and without executing a command (when the call
\* exhausts the budget the exit reason is token_budget); a first response
\* of that kind gives exit_reason = completed, iterations = 1,
\* commands_executed = 0 and the patch get_patch returns.
C6_PlainAnswer ==
    (agent \in LoopAgents /\ "answer" \in events) =>
        /\ LoopStopped
        /\ dispatched = <<>>
        /\ exit_reason = (IF BudgetSpent THEN "token_budget" ELSE "completed")
        /\ (pc = "returned" /\ oracle_calls = 1 /\ ~BudgetSpent) =>
              /\ result.exit_reason = "completed"
              /\ metrics.exit_reason = "completed"
              /\ metrics.iterations = 1
              /\ metrics.commands_executed = 0
              /\ exec_calls = 0
              /\ ~patch_calls[1].raised => CarriesCapturedPatch

\* The first response is a plain answer; solve returned the captured patch.
C6_Witness ==
    /\ agent \in LoopAgents
    /\ "answer" \in events
    /\ pc = "returned"
    /\ oracle_calls = 1
    /\ result.exit_reason = "completed"
    /\ result.model_patch # None
    /\ CarriesCapturedPatch

\* C7: when the loop has stopped after a turn that held a Submit or GiveUp
\* action, every block of that turn was processed: each tool-use block was
\* dispatched, in order, each has its tool result, and each
\* execute_command was executed; and no oracle invocation follows the
\* dispatch of a Submit or GiveUp.
C7_TurnCompleted ==
    /\ blk = response.size + 1
    /\ Len(response.content) = response.size
    /\ dispatched = ToolBlocks(response.content)
    /\ Len(tool_results) = Len(dispatched)
    /\ \A i \in DOMAIN tool_results :
           tool_results[i].tool_use_id = <<iteration, i>>

C7_SubmitEndsAfterTurn ==
    /\ []( ( /\ agent \in LoopAgents
             /\ LoopStopped
             /\ events \cap {"submit_patch", "give_up"} # {} )
           => /\ C7_TurnCompleted
              /\ exit_reason \in {"completed", "gave_up"} )
    /\ [][ events \cap {"submit_patch", "give_up"} # {} =>
               oracle_calls' = oracle_calls ]_vars
    /\ [][ ( /\ events \cap {"submit_patch", "give_up"} # {}
             /\ pc = "dispatch"
             /\ Len(response'.content) = Len(response.content) + 1
             /\ response'.content[blk] = "execute_command"
             /\ pc' # "raised" )
           => /\ exec_calls' = exec_calls + 1
              /\ metrics'.commands_executed = metrics.commands_executed + 1 ]_vars

\* A turn of Submit followed by a command: both were dispatched before the
\* loop stopped.
C7_Witness ==
    /\ agent \in LoopAgents
    /\ pc = "returned"
    /\ response.content = <<"submit_patch", "execute_command">>
    /\ Len(tool_results) = 2
    /\ metrics.commands_executed = 1
    /\ result.exit_reason = "completed"

\* C8: dispatching a tool-use block with an unrecognized name appends
\* exactly one error tool result naming it, executes nothing and leaves
\* exit_reason, should_break and the metrics as they were; a turn that held
\* such a block and no Submit or GiveUp is followed by the next turn
\* boundary.
C8_IsUnknownStep ==
    /\ pc = "dispatch"
    /\ Len(response'.content) = Len(response.content) + 1
    /\ response'.content[blk] \notin ToolNames \cup {"text"}

C8_UnknownToolNonFatal ==
    /\ [][ C8_IsUnknownStep =>
               /\ Len(tool_results') = Len(tool_results) + 1
               /\ SubSeq(tool_results', 1, Len(tool_results)) = tool_results
               /\ tool_results'[Len(tool_results')].is_error
               /\ tool_results'[Len(tool_results')].content =
                      <<"Unknown tool: " \o response'.content[blk]>>
               /\ tool_results'[Len(tool_results')].tool_use_id =
                      <<iteration, Len(tool_results')>>
               /\ exit_reason' = exit_reason
               /\ should_break' = should_break
               /\ metrics' = metrics
               /\ exec_calls' = exec_calls
               /\ worktree' = worktree
               /\ pc' = "dispatch" ]_vars
    /\ [][ ( /\ pc = "dispatch"
             /\ pc' \notin {"dispatch", "raised"}
             /\ "unknown_tool" \in events
             /\ events \cap {"submit_patch", "give_up"} = {} )
           => /\ pc' = "loop_head"
              /\ exit_reason' = "max_iterations" ]_vars

\* After a first turn that held only an unknown tool, the oracle is about
\* to be called for the second turn.
C8_Witness ==
    /\ agent \in LoopAgents
    /\ "unknown_tool" \in events
    /\ pc = "call_oracle"
    /\ iteration = 2
    /\ metrics.commands_executed = 0
    /\ exit_reason = "max_iterations"

\* C9: solve never lets an exception out; when it has returned, get_patch
\* was attempted exactly once, a failed capture gave an absent patch with
\* patch_produced false, and the exit reason is the one the run determined.
C9_AlwaysAResult ==
    /\ pc # "raised"
    /\ pc = "returned" =>
           /\ Len(patch_calls) = 1
           /\ result.returned
           /\ result.exit_reason = exit_reason
           /\ patch_calls[1].raised =>
                  /\ result.model_patch = None
                  /\ ~metrics.patch_produced

\* C10: when solve has returned, the exit reason of the AgentResult is one
\* of the six exit reasons and is the one recorded in the finalized
\* metrics; until then no exit reason is recorded and no result exists.
C10_OneExitReason ==
    /\ pc = "returned" =>
           /\ result.returned
           /\ result.exit_reason \in ExitReasons
           /\ result.exit_reason = metrics.exit_reason
           /\ agent = "claude-code" =>
                  result.exit_reason \in {"completed", "timeout", "error"}
    /\ pc # "returned" =>
           /\ ~result.returned
           /\ metrics.exit_reason = ""

\* The CLI agent returned after a timeout of its subprocess.
C10_Witness ==
    /\ pc = "returned"
    /\ agent = "claude-code"
    /\ result.exit_reason = "timeout"
    /\ metrics.exit_reason = "timeout"
    /\ metrics.patch_produced

\* C11: the run counters of the control loop are exact in every state:
\* metrics.iterations is the number of oracle invocations made (the one in
\* progress included), commands_executed is the number of execute_command
\* actions dispatched whatever their exit codes, commands_timed_out grows by
\* one exactly with each result that timed out and never exceeds
\* commands_executed; N single-command turns followed by a turn that only
\* submits give commands_executed = N, iterations = N + 1 and
\* exit_reason = completed.
C11_InProgress == IF pc = "call_oracle" THEN 1 ELSE 0

C11_LastResultTimedOut ==
    \E i \in DOMAIN tool_results'[Len(tool_results')].content :
        tool_results'[Len(tool_results')].content[i] = "Command timed out"

C11_CountersExact ==
    /\ []( agent \in LoopAgents =>
             /\ metrics.iterations = oracle_calls + C11_InProgress
             /\ metrics.commands_executed = exec_calls
             /\ metrics.commands_timed_out <= metrics.commands_executed
             /\ ( /\ pc = "returned"
                  /\ "other_turn" \notin events
                  /\ dispatched = <<"submit_patch">> )
                => /\ metrics.commands_executed = oracle_calls - 1
                   /\ metrics.iterations = oracle_calls
                   /\ result.exit_reason = "completed"
                   /\ metrics.exit_reason = "completed" )
    /\ [][ IF exec_calls' = exec_calls + 1 /\ pc' # "raised"
           THEN metrics'.commands_timed_out = metrics.commands_timed_out
                    + (IF C11_LastResultTimedOut THEN 1 ELSE 0)
           ELSE metrics'.commands_timed_out = metrics.commands_timed_out ]_vars

\* One turn with a single command that fails and times out, then a turn
\* that submits.
C11_Witness ==
    /\ agent \in LoopAgents
    /\ pc = "returned"
    /\ "other_turn" \notin events
    /\ dispatched = <<"submit_patch">>
    /\ oracle_calls = 2
    /\ metrics.commands_executed = 1
    /\ metrics.commands_timed_out = 1
    /\ metrics.iterations = 2
    /\ result.exit_reason = "completed"

\* C12: with agent_timeout = 0 and max_iterations >= 1 the loop makes no
\* oracle call, whatever the first clock reading is, and stops with
\* exit_reason = timeout and metrics.iterations = 0.
C12_ZeroTimeout ==
    (agent \in LoopAgents /\ agent_timeout = 0 /\ max_iterations >= 1) =>
        /\ pc # "call_oracle"
        /\ oracle_calls = 0
        /\ metrics.iterations = 0
        /\ LoopStopped => exit_reason = "timeout"

(***************************************************************************)
(* Properties of ContainerSession (under SessionSpec).                     *)
(***************************************************************************)
\* The call was made and returned a CommandResult.
Returned == call.done /\ ~call.raised

\* What the exec returned for the call.
Raw == RawOutput(request)

CountSentinels(s) == Cardinality({ i \in DOMAIN s : s[i] = SentinelPrefix })

Newlines(k) == [j \in 1..k |-> "\n"]

\* raw ends with the line SWEBENCH_EXIT:<n>, which starts at position i.
SentinelLineAt(raw, i, n) ==
    /\ raw[i] = SentinelPrefix
    /\ i = 1 \/ raw[i - 1] = "\n"
    /\ \E k \in 0..Len(raw) :
           SubSeq(raw, i + 1, Len(raw)) = StatusText(n) \o Newlines(k)

\* The last line of raw starts with the sentinel prefix.
LastLineIsSentinel(raw) ==
    \E i \in DOMAIN raw :
        /\ raw[i] = SentinelPrefix
        /\ i = 1 \/ raw[i - 1] = "\n"
        /\ \A j \in (i + 1)..Len(raw) :
               raw[j] = "\n" => \A k \in j..Len(raw) : raw[k] = "\n"

\* C13: for a command that runs to completion, whatever it prints, execute
\* returns its exit status as exit_code and an output without the sentinel
\* (no more sentinel prefixes than the command printed itself).
C13_ExitCodeRecovered ==
    (Returned /\ request.kind = "completed") =>
        /\ call.result.exit_code = request.status
        /\ CountSentinels(call.result.output) <= CountSentinels(request.out)

\* C14: when the execution did not time out and the raw output ends with
\* the line SWEBENCH_EXIT:<n>, the exit_code is n and the returned output is
\* the text before that line, truncated: the sentinel is parsed and removed
\* before the truncation, for raw outputs of every length.
C14_SentinelParsedFirst ==
    (Returned /\ request.kind # "timeout") =>
        \A i \in DOMAIN Raw, n \in ExitStatuses :
            SentinelLineAt(Raw, i, n) =>
                /\ call.result.exit_code = n
                /\ call.result.output = Truncate(SubSeq(Raw, 1, i - 2))

\* A command that fails after printing more than the ceiling allows.
C14_Witness ==
    /\ Returned
    /\ request.op = "execute"
    /\ request.kind = "completed"
    /\ request.status = 1
    /\ request.out = <<"a", "a", "a", "\n">>
    /\ call.result.exit_code = 1
    /\ Len(call.result.output) > Len(request.out)

\* C15: when the last line of the raw output is no sentinel line, the
\* CommandResult has exit_code = -1 and timed_out = true.
C15_NoSentinelMeansTimeout ==
    (Returned /\ ~LastLineIsSentinel(Raw)) =>
        /\ call.result.exit_code = -1
        /\ call.result.timed_out

\* C16: the timeout execute hands to the exec lies in 1..MAX_COMMAND_TIMEOUT.
C16_EffectiveTimeoutInRange ==
    (call.done /\ call.started) => call.effective \in 1..MAX_COMMAND_TIMEOUT

\* C17: the effective timeout is MAX_COMMAND_TIMEOUT for a timeout above
\* it, the timeout itself when it is positive and not above it, and the
\* session's command_timeout when it is unset, zero or negative.
C17_EffectiveTimeout ==
    (call.done /\ call.started /\ request.op = "execute") =>
        LET t == request.timeout
        IN  /\ (t # None /\ t[1] > MAX_COMMAND_TIMEOUT) =>
                   call.effective = MAX_COMMAND_TIMEOUT
            /\ (t # None /\ t[1] > 0 /\ t[1] <= MAX_COMMAND_TIMEOUT) =>
                   call.effective = t[1]
            /\ (t = None \/ t[1] <= 0) => call.effective = command_timeout

\* A timeout far above the cap on a session with a default inside the range.
C17_Witness ==
    /\ Returned
    /\ request.timeout = Some(999999)
    /\ command_timeout = 120
    /\ call.effective = MAX_COMMAND_TIMEOUT

\* C18: an output longer than MAX_OUTPUT_BYTES is returned as its first
\* MAX_OUTPUT_BYTES / 2 symbols, a marker stating its length, and its last
\* MAX_OUTPUT_BYTES / 2 symbols, at most MAX_OUTPUT_BYTES plus the marker's
\* length in all; an output not longer than MAX_OUTPUT_BYTES is returned
\* unchanged.
C18_Body == ParseOutput(Raw, request.kind = "timeout").output

C18_Truncation ==
    (Returned /\ request.op = "execute") =>
        LET body == C18_Body
            out == call.result.output
            half == MAX_OUTPUT_BYTES \div 2
            marker_length == Len(Marker(Len(body)))
        IN  IF Len(body) > MAX_OUTPUT_BYTES
            THEN /\ Len(out) <= MAX_OUTPUT_BYTES + marker_length
                 /\ Len(out) = 2 * half + marker_length
                 /\ SubSeq(out, 1, half) = SubSeq(body, 1, half)
                 /\ SubSeq(out, Len(out) - half + 1, Len(out)) =
                        SubSeq(body, Len(body) - half + 1, Len(body))
                 /\ \E i \in (half + 1)..(Len(out) - half) :
                        out[i] = ToString(Len(body))
            ELSE out = body

\* An output of four symbols, cut to its first and its last.
C18_Witness ==
    /\ Returned
    /\ request.op = "execute"
    /\ request.kind = "killed"
    /\ request.out = <<"a", "1", "\n", "a">>
    /\ Len(call.result.output) = 2 * (MAX_OUTPUT_BYTES \div 2) + 7
    /\ call.result.output[1] = "a"
    /\ call.result.output[Len(call.result.output)] = "a"

C20_PatchIsTheDiff ==
    (Returned /\ request.op = "get_patch" /\ request.kind = "completed") =>
        call.patch = Strip(worktree)

-----------------------------------------------------------------------------
\* Properties of the session's life cycle (specification LifecycleSpec).

\* The step is a call of get_patch.
IsGetPatchStep == Len(patch_calls') = Len(patch_calls) + 1

\* The step is a call of cleanup (by hand or by __exit__).
IsCleanupStep ==
    \/ "cleaned" \notin events /\ "cleaned" \in events'
    \/ "cleaned_twice" \notin events /\ "cleaned_twice" \in events'

C23_CleanupOnEveryExit == "with_left" \in events => "cleaned" \in events

-----------------------------------------------------------------------------
\* Properties of run_instance_with_agent (specification RunnerSpec).

\* run_instance_with_agent is over.
RunEnded == rpc \in {"returned", "propagated"}

\* C24: when run_instance_with_agent is over, a session that was constructed
\* has had cleanup called exactly once, whichever way the attempt went; a
\* cleanup that raises neither changes the prediction nor keeps the
\* function from returning it.
C24_CleanupExactlyOnce ==
    /\ [](cleanup_calls <= 1)
    /\ [](RunEnded => cleanup_calls = (IF has_session THEN 1 ELSE 0))
    /\ [](has_session /\ rpc \notin {"cleanup", "returned", "propagated"} =>
             cleanup_calls = 0)
    /\ [][ rpc = "cleanup" /\ rpc' # "cleanup" =>
              /\ prediction' = prediction
              /\ pending = "return" => rpc' = "returned" ]_vars

\* The patch file could not be written and cleanup raised: the attempt
\* returned its prediction, after one call of cleanup.
C24_Witness ==
    /\ rpc = "returned"
    /\ {"write_failed", "cleanup_raised"} \subseteq events
    /\ cleanup_calls = 1
    /\ prediction = Prediction(None)

\* C25: unless it is interrupted from outside, run_instance_with_agent ends
\* by returning a prediction; no exception leaves it.
C25_AlwaysAPrediction ==
    (RunEnded /\ "cancelled" \notin events) =>
        (rpc = "returned" /\ prediction # None)

\* C26: when session.start() fails, the attempt makes no oracle call and
\* runs no command, returns a prediction with no patch, saves metrics with
\* exit_reason = "error" and patch_produced = false (whenever metrics.json
\* can be written), and cleans the session up.
C26_ProvisioningFailure ==
    "start_failed" \in events =>
        /\ oracle_calls = 0
        /\ exec_calls = 0
        /\ result = NoResult
        /\ rpc # "propagated"
        /\ rpc \in {"cleanup", "returned"} =>
               /\ "save_failed" \notin events => persisted # None
               /\ persisted # None =>
                      /\ persisted[1].exit_reason = "error"
                      /\ ~persisted[1].patch_produced
        /\ rpc = "returned" =>
               /\ prediction = Prediction(None)
               /\ cleanup_calls = 1
               /\ "cleanup_raised" \notin events => container = None

\* start() failed after the container was created; the attempt returned.
C26_Witness ==
    /\ {"start_failed", "created"} \subseteq events
    /\ rpc = "returned"
    /\ persisted # None
    /\ container = None

\* C27: an attempt that returned called metrics.finalize exactly once.
C27_FinalizedOnce == rpc = "returned" => finalize_calls = 1

\* total_tokens, patch_produced and patch_size_bytes
Derived(m) == <<m.total_tokens, m.patch_produced, m.patch_size_bytes>>

\* The patches finalize can be given, the empty string among them.
FinalizePatches == RunPatches \cup {Some(EmptyText)}

\* C28: for the metrics of every state and every patch and exit reason,
\* finalize gives total_tokens = input_tokens + output_tokens,
\* patch_produced exactly for a non-empty patch, and patch_size_bytes the
\* number of bytes of the patch in UTF-8 (0 exactly when none was
\* produced); these fields are the same for a fresh record with the same
\* token counters, and the same when finalize is called again.
C28_FinalizeDerivedFields ==
    \A patch \in FinalizePatches, reason \in ExitReasons :
        LET f == finalize(metrics, patch, reason)
            nonempty == patch # None /\ patch[1] # <<>>
            fresh == [NewMetrics EXCEPT !.input_tokens = metrics.input_tokens,
                                        !.output_tokens = metrics.output_tokens]
        IN  /\ f.total_tokens = f.input_tokens + f.output_tokens
            /\ f.input_tokens = metrics.input_tokens
            /\ f.output_tokens = metrics.output_tokens
            /\ f.exit_reason = reason
            /\ f.patch_produced = nonempty
            /\ f.patch_size_bytes =
                   (IF nonempty
                    THEN Len(SelectSeq(patch[1], LAMBDA c : TRUE))
                           + Len(SelectSeq(patch[1], LAMBDA c : c = "é"))
                    ELSE 0)
            /\ (f.patch_size_bytes = 0) = ~f.patch_produced
            /\ Derived(finalize(fresh, patch, reason)) = Derived(f)
            /\ Derived(finalize(f, patch, reason)) = Derived(f)

\* solve finalized the metrics with a patch that has a two-byte character.
C28_Witness ==
    /\ rpc = "write"
    /\ finalize_calls = 1
    /\ metrics.total_tokens = 2
    /\ metrics.patch_produced
    /\ metrics.patch_size_bytes = 3
    /\ Len(result.model_patch[1]) = 2

-----------------------------------------------------------------------------
\* Properties of aggregate_metrics (specification AggregateSpec).

\* C29: aggregate_metrics raises for no list; for the empty list it returns
\* the empty summary; for a list with records it leaves the list as it
\* was, num_instances is the length of the list, patches_produced counts
\* the records with a patch and is at most num_instances, and the counts of
\* the exit-reason histogram add up to num_instances.
C29_AggregateTotal ==
    /\ [](summary.aggregated =>
            /\ ~summary.raised
            /\ all_metrics = <<>> => summary.value = EmptyDict
            /\ all_metrics # <<>> =>
                 LET v == summary.value
                     reasons == DOMAIN v.exit_reasons
                     counts == [r \in reasons |-> v.exit_reasons[r]]
                     AddUp[S \in SUBSET reasons] ==
                         IF S = {} THEN 0
                         ELSE LET r == CHOOSE x \in S : TRUE
                              IN  counts[r] + AddUp[S \ {r}]
                 IN  /\ v.num_instances = Len(all_metrics)
                     /\ v.patches_produced =
                            Cardinality({ k \in 1..Len(all_metrics) :
                                             all_metrics[k].patch_produced })
                     /\ v.patches_produced <= v.num_instances
                     /\ AddUp[reasons] = v.num_instances
                     /\ v.patch_rate[2] # 0
                     /\ v.avg_iterations[2] # 0
                     /\ v.avg_tokens_per_instance[2] # 0)
    /\ [][ summary' # summary => all_metrics' = all_metrics ]_vars

\* Two records with different exit reasons, the second of them with a patch.
C29_Witness ==
    /\ summary.aggregated
    /\ Len(all_metrics) = 2
    /\ all_metrics[1].exit_reason = "error"
    /\ all_metrics[2].exit_reason = "timeout"
    /\ summary.value.patches_produced = 1
    /\ summary.value.exit_reasons["error"] = 1

-----------------------------------------------------------------------------
\* Properties of the predictions log (specification MainSpec).

\* C30: over any sequence of runs of main, stopped wherever, no instance is
\* executed that had a record in predictions.jsonl, the log only grows at
\* its end, and no two of its records have the same instance id.
C30_LogIdempotent ==
    /\ [](\A k \in 1..Len(executed) : ~executed[k].logged)
    /\ [](\A k, l \in 1..Len(predictions_log) :
             predictions_log[k].instance_id = predictions_log[l].instance_id
                 => k = l)
    /\ [][ /\ Len(predictions_log') >= Len(predictions_log)
           /\ SubSeq(predictions_log', 1, Len(predictions_log))
                  = predictions_log ]_vars

\* A run was stopped after an attempt and before its record was appended;
\* a later run made the attempt again, and the log has one record for each
\* of two instances.
C30_Witness ==
    /\ runs >= 2
    /\ Len(predictions_log) = 2
    /\ Len(executed) = 3
    /\ executed[1].instance_id = executed[2].instance_id

-----------------------------------------------------------------------------
\* Properties of the conversation and of the terminal tools (specification
\* Spec).

\* C39: the conversation only grows at its end and its turns are user,
\* assistant, user, ...; the oracle is called on a conversation that ends
\* with a user turn; a turn of tool calls is closed by one user turn that
\* has one tool result for each tool-use block of the assistant turn, in
\* their order and with their ids.
C39_Conversation ==
    /\ [](\A k \in 1..Len(messages) :
             messages[k] = (IF k % 2 = 1 THEN "user" ELSE "assistant"))
    /\ [](pc = "call_oracle" /\ agent \in LoopAgents =>
             messages # <<>> /\ messages[Len(messages)] = "user")
    /\ [][ /\ Len(messages') >= Len(messages)
           /\ SubSeq(messages', 1, Len(messages)) = messages ]_vars
    /\ [][ (pc = "dispatch" /\ pc' \in {"loop_head", "get_patch"}) =>
              /\ messages' = Append(messages, "user")
              /\ Len(tool_results) = Len(ToolBlocks(response.content))
              /\ \A k \in 1..Len(tool_results) :
                     tool_results[k].tool_use_id = <<iteration, k>> ]_vars

\* Two turns of tool calls are closed, one of them with an unknown tool,
\* and the loop goes on.
C39_Witness ==
    /\ pc = "loop_head"
    /\ Len(messages) = 5
    /\ "unknown_tool" \in events

\* The last of the two terminal tools in the names a turn dispatched.
LastTerminal(names_dispatched) ==
    LET terminal == SelectSeq(names_dispatched,
                              LAMBDA n : n \in {"submit_patch", "give_up"})
    IN  terminal[Len(terminal)]

\* C40: when one turn dispatched both submit_patch and give_up, the loop
\* stops with that turn and the exit_reason is the one of whichever came
\* last: completed for submit_patch, gave_up for give_up.
C40_LastTerminalWins ==
    (/\ agent \in LoopAgents
     /\ \E k \in 1..Len(dispatched) : dispatched[k] = "submit_patch"
     /\ \E k \in 1..Len(dispatched) : dispatched[k] = "give_up") =>
        LET expected == IF LastTerminal(dispatched) = "give_up"
                        THEN "gave_up" ELSE "completed"
        IN  /\ pc \in {"dispatch", "get_patch", "returned", "raised"}
            /\ should_break
            /\ exit_reason = expected
            /\ pc = "returned" =>
                   /\ result.exit_reason = expected
                   /\ metrics.exit_reason = expected

\* submit_patch and then give_up in one turn: the run gave up.
C40_Witness ==
    /\ pc = "returned"
    /\ dispatched = <<"submit_patch", "give_up">>
    /\ result.exit_reason = "gave_up"

(***************************************************************************)
(* Properties of the tool result of execute_command (specification         *)
(* ToolResultSpec).                                                        *)
(***************************************************************************)
\* The output the command printed, without the sentinel line.
OriginalOutput == ParseOutput(RawOutput(request), request.kind = "timeout").output

TextBuilt == call.done /\ ~call.raised

\* The output part was shortened by the sandbox, by _handle_execute or by both.
OutputShortened == TextBuilt /\ result_text.output # OriginalOutput

\* The lines the text ends with.
ClosingLines ==
    IF call.result.timed_out
    THEN <<ExitCodeLine(call.result.exit_code), "\n", "Command timed out">>
    ELSE <<ExitCodeLine(call.result.exit_code)>>

\* The output part is p symbols from the start of the original output, a
\* marker stating the number n, and q symbols from its end.
CutOf(original, p, q, n) ==
    { SubSeq(original, 1, p) \o m
          \o SubSeq(original, Len(original) - q + 1, Len(original)) :
      m \in {Marker(n), ConversationMarker(n)} }

\* C38: a shortened output part is a prefix and a suffix of the original
\* output, of at most the conversation ceiling together, around one marker
\* that states the length of the original output; the text ends with the
\* exit-code line, followed by the timed-out line exactly when the command
\* timed out.
C38_ToolResultText ==
    TextBuilt =>
        /\ result_text.text =
               (IF result_text.output # <<>>
                THEN result_text.output \o <<"\n">> ELSE <<>>) \o ClosingLines
        /\ OutputShortened =>
               \E p \in 0..Len(OriginalOutput), q \in 0..Len(OriginalOutput) :
                   /\ p + q <= OUTPUT_TRUNCATION_CHARS
                   /\ result_text.output
                          \in CutOf(OriginalOutput, p, q, Len(OriginalOutput))

\* The same with the marker left free to state any number.
C38_AnyNumber ==
    TextBuilt =>
        /\ result_text.text =
               (IF result_text.output # <<>>
                THEN result_text.output \o <<"\n">> ELSE <<>>) \o ClosingLines
        /\ OutputShortened =>
               \E p \in 0..Len(OriginalOutput), q \in 0..Len(OriginalOutput),
                  n \in 0..(MAX_OUTPUT_BYTES + Len(Marker(0))) :
                   /\ p + q <= OUTPUT_TRUNCATION_CHARS
                   /\ result_text.output \in CutOf(OriginalOutput, p, q, n)

(***************************************************************************)
(* Properties of the environment of the CLI subprocesses (specification    *)
(* EnvSpec).                                                               *)
(***************************************************************************)
Launched == subprocess_env # None

\* C32: the subprocess of either CLI agent is started with the parent
\* environment restricted to the allow-list: its environment is determined
\* by the allow-listed variables of the parent, and it holds no variable
\* outside the allow-list, ANTHROPIC_API_KEY in particular.
C32_AllowListedOnly ==
    Launched =>
        /\ DOMAIN subprocess_env[1] = (DOMAIN environ) \cap KEEP_KEYS
        /\ \A k \in DOMAIN subprocess_env[1] : subprocess_env[1][k] = environ[k]
        /\ "ANTHROPIC_API_KEY" \notin DOMAIN subprocess_env[1]

\* The same for the Claude Code CLI alone.
C32_ClaudeCodeOnly ==
    (Launched /\ agent = "claude-code") =>
        /\ DOMAIN subprocess_env[1] = (DOMAIN environ) \cap KEEP_KEYS
        /\ \A k \in DOMAIN subprocess_env[1] : subprocess_env[1][k] = environ[k]
        /\ "ANTHROPIC_API_KEY" \notin DOMAIN subprocess_env[1]

-----------------------------------------------------------------------------
\* Properties of the retry of failed attempts (specification MainSpec).

\* The last execution of an instance ended with exit_reason = error.
EndedInError(id) ==
    \E k \in 1..Len(executed) :
        /\ executed[k].instance_id = id
        /\ executed[k].exit_reason = "error"
        /\ \A l \in (k + 1)..Len(executed) : executed[l].instance_id # id

\* main starts a run.
IsMainStart == mpc = "idle" /\ runs' = runs + 1

\* C31: a run of main that starts after an attempt of a task ended with
\* exit_reason = error has that task among those it will attempt.
C31_ErrorIsRetried ==
    [][ IsMainStart =>
            \A i \in 1..Len(Dataset) :
                EndedInError(Dataset[i]) =>
                    \E j \in 1..Len(remaining') : remaining'[j] = Dataset[i] ]_vars

\* The same for an attempt whose record did not reach predictions.jsonl.
C31_UnloggedIsRetried ==
    [][ IsMainStart =>
            \A i \in 1..Len(Dataset) :
                (/\ EndedInError(Dataset[i])
                 /\ Dataset[i] \notin load_completed_ids(predictions_log)) =>
                    \E j \in 1..Len(remaining') : remaining'[j] = Dataset[i] ]_vars

-----------------------------------------------------------------------------
\* Properties of the repos on disk (specification RepoSpec).

\* The repos the iteration cloned whose directory is still on disk.
ClonedOnDisk == { r \in RepoIds : disk[r] = "cloned" }

\* The repos a slot is held for: the one being cloned, and those yielded
\* and not yet given to delete_repo.
SlotHolders == outstanding \cup (IF gpc = "clone" THEN {position} ELSE {})

\* C33: never more than max_repos_on_disk repos are cloned and not yet
\* deleted, and never more than max_repos_on_disk slots are free.
C33_BoundedRepos ==
    /\ Cardinality(ClonedOnDisk) <= max_repos_on_disk
    /\ semaphore <= max_repos_on_disk

\* The slots are accounted for: the free ones and the held ones make up
\* max_repos_on_disk, so that neither number exceeds it.
C33_SlotsAccounted ==
    /\ semaphore >= 0
    /\ semaphore + Cardinality(SlotHolders) = max_repos_on_disk


\* The clone of the repo at hand fails and the except clause runs.
IsCloneFailure == gpc = "clone" /\ outstanding' = outstanding /\ gpc' = "next_repo"

\* The generator has a slot for repo r, or had one.
Reached(r) == position > r \/ (position = r /\ gpc # "acquire")

\* C37: when the clone of a repo fails, the slot acquired for it is released
\* once and nothing is left at its path; no slot is released twice; and the
\* iteration reaches every repo that has data points and ends.
C37_FailureFreesSlotAndDisk ==
    /\ [][ IsCloneFailure =>
               /\ semaphore' = semaphore + 1
               /\ releases'[position] = 1
               /\ disk'[position] = "absent" ]_vars
    /\ [](\A r \in RepoIds : releases[r] <= 1)
    /\ \A r \in RepoIds : (r \in repo_groups) ~> Reached(r)
    /\ <>(gpc = "done")

\* The same without the directory.
C37_FailureFreesSlot ==
    /\ [][ IsCloneFailure =>
               /\ semaphore' = semaphore + 1
               /\ releases'[position] = 1 ]_vars
    /\ [](\A r \in RepoIds : releases[r] <= 1)
    /\ \A r \in RepoIds : (r \in repo_groups) ~> Reached(r)
    /\ <>(gpc = "done")

-----------------------------------------------------------------------------
\* Properties of the prompt cache under threads (specification CacheSpec).

AllPutsDone == \A t \in Writers : tpc[t] = "done"

\* The file is a sequence of whole lines, none cut into by another.
WholeLines(file) ==
    /\ Len(file) % 2 = 0
    /\ \A k \in 1..(Len(file) \div 2) :
           /\ file[2 * k - 1][2] = "head"
           /\ file[2 * k][2] = "tail"
           /\ file[2 * k - 1][1] = file[2 * k][1]

PiecesOf(file, t) == { k \in 1..Len(file) : file[k][1].messages = t }

-----------------------------------------------------------------------------
\* Properties of the runs in parallel mode (specification ParallelSpec).

Recorded(id) == id \in load_existing_ids(results_file)

\* The main thread goes past the data point at hand.
IsDataPointStep == ppc = "datapoint" /\ dpi <= Len(datapoints) /\ dpi' = dpi + 1

\* C35: over any sequence of runs, stopped wherever: no LLM call is
\* submitted for a text_id that has a record in results.jsonl; no prompt is
\* composed for a text_id that has a line in the cache file; a text_id
\* whose LLM call failed has no record, and a run that comes to it submits
\* it again.
C35_Resumable ==
    /\ [](\A s \in submissions : ~s.had_record)
    /\ [](\A c \in compositions : ~c.was_cached)
    /\ [](\A id \in failures : ~Recorded(id))
    /\ [][ (IsDataPointStep /\ datapoints[dpi] \in failures) =>
               futures'[datapoints[dpi]].state = "running" ]_vars

\* The call for "x" failed in the first run; the second run submitted it
\* again, with the prompt the first run had composed, and did not submit
\* "y", which has a record.
C35_Witness ==
    /\ pruns = 2
    /\ Recorded("y")
    /\ [run |-> 1, text_id |-> "x", had_record |-> FALSE] \in submissions
    /\ [run |-> 2, text_id |-> "x", had_record |-> FALSE] \in submissions
    /\ [run |-> 1, text_id |-> "y", had_record |-> FALSE] \in submissions
    /\ \A s \in submissions : s.text_id = "y" => s.run = 1
    /\ \A c \in compositions : c.text_id = "x" => c.run = 1
    /\ futures["x"].state = "running"
    /\ futures["x"].messages = 1

\* The main thread deletes the repo at hand.
IsParDelete == ppc = "datapoint" /\ ppc' = "iterate"

\* C36: when a repo is deleted, every data point yielded with it that has
\* no result yet has its prompt in the cache, in memory and on disk; and
\* every LLM call was submitted with the messages of the cached entry.
C36_DeleteAfterCaching ==
    /\ [][ IsParDelete =>
               \A k \in 1..Len(datapoints) :
                   \/ datapoints[k] \in existing_ids
                   \/ /\ cache_index[datapoints[k]] # None
                      /\ CachedOnDisk(datapoints[k]) ]_vars
    /\ [](\A id \in TextIds :
              futures[id].state # "none" =>
                  /\ cache_index[id] # None
                  /\ futures[id].messages = cache_index[id][1].messages)

\* The repo of "x" and "y" is gone from the disk while the LLM calls for
\* both are running, one of them on a prompt reloaded from the cache file.
C36_Witness ==
    /\ pruns = 2
    /\ disk[1] = "absent"
    /\ futures["x"].state = "running"
    /\ futures["y"].state = "running"
    /\ futures["x"].messages = 1
    /\ futures["y"].messages = 2

=============================================================================
